---- MODULE Spec2Model ----
(***************************************************************************)
(* Routing pipeline and upstream health model of the eRPC gateway.         *)
(*                                                                         *)
(* State: the project's upstream array, the per-upstream health map of     *)
(* UpstreamService, the cached node status of NodeStatusService, the wall  *)
(* clock, and one record per in-flight HTTP request (its position in       *)
(* DefaultRoutingStrategy.execute or in the /health handler).              *)
(* Every synchronous block of the TypeScript code (the code between two    *)
(* awaits) is one action; Date.now() inside one block is one value.        *)
(***************************************************************************)
EXTENDS Integers, Sequences, FiniteSets, TLC

\* ------------------------------------------------------------------ bounds
StartTime == 10          \* Date.now() when the server starts serving
Horizon == 2             \* the clock advances at most this far
NumSlots == 2            \* concurrent HTTP requests
MaxRequests == 2         \* HTTP requests accepted over a run
MaxBlock == 1            \* small block heights 0..MaxBlock
MaxOutcomes == 3         \* outcomes recorded before a stage run
LiveRequests == 1        \* HTTP requests accepted in a fair run

MaxTime == StartTime + Horizon
Slots == 1..NumSlots

\* ------------------------------------------- project configuration values
errorRateWindowMs == 2
failoverCooldownMs == 0
maxConsecutiveErrors == 2
statusCheckInterval == 2
\* errorRateThreshold = ThresholdNum / ThresholdDen
ThresholdNum == 1
ThresholdDen == 2

\* ------------------------------------------------------ program constants
OldBlockCutoff == 169000000
AssumedLatestBlock == 999999999
InternalErrorCode == -32603
BadGatewayStatus == 502
OkStatus == 200

\* an optional upstream is << >> (none) or << u >>
NoUpstream == << >>

Max(a, b) == IF a >= b THEN a ELSE b

\* ----------------------------------------------------------- the rosters
\* evmStartBlock = 0 stands for an absent (or zero) evmStartBlock: both are
\* falsy in `upstream.evmStartBlock && ...`.
RosterA ==
  << [id |-> "archive-node", type |-> "archive", priority |-> 2,
      statusUrl |-> FALSE, ignoredMethods |-> << >>, evmStartBlock |-> 1],
     [id |-> "fast-node", type |-> "full", priority |-> 1,
      statusUrl |-> TRUE, ignoredMethods |-> << "debug_*" >>,
      evmStartBlock |-> 0] >>

RosterB ==
  << [id |-> "slow-node", type |-> "full", priority |-> 2,
      statusUrl |-> FALSE, ignoredMethods |-> << >>, evmStartBlock |-> 1],
     [id |-> "fast-node", type |-> "full", priority |-> 1,
      statusUrl |-> FALSE,
      ignoredMethods |-> << "debug_*", "eth_getLogs" >>,
      evmStartBlock |-> 1] >>

Rosters == { RosterA, RosterB }

UpstreamIds == { "fast-node", "slow-node", "archive-node" }

historicalMethods ==
  { "eth_getBalance", "eth_getBlockByNumber", "eth_getLogs",
    "debug_traceBlockByNumber", "debug_traceTransaction" }

\* ------------------------------------------------------------- variables
VARIABLES
  now,              \* Date.now()
  upstreams,        \* config.upstreams (sorted in place by getAvailableUpstreams)
  upstreamHealth,   \* UpstreamService.upstreamHealth
  localNodeStatus,  \* NodeStatusService.localNodeStatus
  lastStatusCheck,  \* NodeStatusService.lastStatusCheck
  req,              \* per slot: the in-flight HTTP request
  started,          \* HTTP requests accepted so far
  lastFetchStart,   \* when the latest status fetch was started (-1: never)
  outcomes          \* per upstream: outcomes recorded, failures among them,
                    \* and failures since the last success

vars == << now, upstreams, upstreamHealth, localNodeStatus, lastStatusCheck,
           req, started, lastFetchStart, outcomes >>

\* ------------------------------------------------- UpstreamService (health)
InitialHealth ==
  [ errors |-> << >>, totalRequests |-> 0, totalErrors |-> 0,
    consecutiveErrors |-> 0, lastError |-> -1,
    lastSuccessfulRequest |-> StartTime, isHealthy |-> TRUE,
    failoverUntil |-> 0, methodStats |-> << >> ]

InWindow(errorTime, t) == t - errorTime < errorRateWindowMs

RecentErrors(errors, t) == SelectSeq(errors, LAMBDA e : InWindow(e, t))

\* errorRate > errorRateThreshold, for errorRate = n / d
RateAbove(n, d) == n * ThresholdDen > ThresholdNum * d
\* errorRate < errorRateThreshold
RateBelow(n, d) == n * ThresholdDen < ThresholdNum * d

\* calculateErrorRate: the health record it leaves behind (errors pruned)
PruneErrors(h, t) ==
  IF h.totalRequests = 0 THEN h
  ELSE [h EXCEPT !.errors = RecentErrors(h.errors, t)]

\* calculateErrorRate: numerator and denominator of the value it returns
ErrorRateNum(h, t) ==
  IF h.totalRequests = 0 THEN 0 ELSE Len(RecentErrors(h.errors, t))
ErrorRateDen(h) == Max(h.totalRequests, 1)

\* the limit tested with > instead of >=
ShouldMarkUnhealthyStrict(h, t) ==
  \/ RateAbove(ErrorRateNum(h, t), ErrorRateDen(h))
  \/ h.consecutiveErrors > maxConsecutiveErrors

ShouldMarkUnhealthy(h, t) ==
  \/ RateAbove(ErrorRateNum(h, t), ErrorRateDen(h))
  \/ h.consecutiveErrors >= maxConsecutiveErrors

ShouldMarkHealthy(h, t) ==
  /\ RateBelow(ErrorRateNum(h, t), ErrorRateDen(h))
  /\ h.consecutiveErrors = 0

\* a failure whose totalErrors update is lost
RecordFailureLost(h, t) ==
  LET h1 == [h EXCEPT !.totalRequests = @ + 1]
      h2 == [h1 EXCEPT !.consecutiveErrors = @ + 1,
                       !.lastError = t,
                       !.errors = Append(@, t)]
      h3 == PruneErrors(h2, t)
  IN  IF ShouldMarkUnhealthy(h2, t)
      THEN [h3 EXCEPT !.isHealthy = FALSE,
                      !.failoverUntil = t + failoverCooldownMs]
      ELSE h3

RecordFailure(h, t) ==
  LET h1 == [h EXCEPT !.totalRequests = @ + 1]
      h2 == [h1 EXCEPT !.totalErrors = @ + 1,
                       !.consecutiveErrors = @ + 1,
                       !.lastError = t,
                       !.errors = Append(@, t)]
      h3 == PruneErrors(h2, t)
  IN  IF ShouldMarkUnhealthy(h2, t)
      THEN [h3 EXCEPT !.isHealthy = FALSE,
                      !.failoverUntil = t + failoverCooldownMs]
      ELSE h3

\* a success that lifts the upstream whatever its cooldown
RecordSuccessIgnoringCooldown(h, t) ==
  LET h1 == [h EXCEPT !.totalRequests = @ + 1]
      h2 == [h1 EXCEPT !.consecutiveErrors = 0,
                       !.lastSuccessfulRequest = t]
  IN  IF ShouldMarkHealthy(h2, t)
      THEN [PruneErrors(h2, t) EXCEPT !.isHealthy = TRUE]
      ELSE PruneErrors(h2, t)

RecordSuccess(h, t) ==
  LET h1 == [h EXCEPT !.totalRequests = @ + 1]
      h2 == [h1 EXCEPT !.consecutiveErrors = 0,
                       !.lastSuccessfulRequest = t]
  IN  IF h2.failoverUntil < t
      THEN IF ShouldMarkHealthy(h2, t)
           THEN [PruneErrors(h2, t) EXCEPT !.isHealthy = TRUE]
           ELSE PruneErrors(h2, t)
      ELSE h2

\* a failed call that leaves no trace
recordRequestResultSuccessOnly(h, success, t) ==
  IF success THEN RecordSuccess(h, t) ELSE h

\* an outcome that is recorded twice
recordRequestResultTwice(h, success, t) ==
  IF success THEN RecordSuccess(RecordSuccess(h, t), t)
  ELSE RecordFailure(RecordFailure(h, t), t)

recordRequestResult(h, success, t) ==
  IF success THEN RecordSuccess(h, t) ELSE RecordFailure(h, t)

\* markUpstreamRecovered (never called by the gateway itself)
markUpstreamRecovered(h, t) ==
  IF ~h.isHealthy /\ h.failoverUntil < t
  THEN IF RateBelow(ErrorRateNum(h, t), ErrorRateDen(h))
       THEN [PruneErrors(h, t) EXCEPT !.isHealthy = TRUE]
       ELSE PruneErrors(h, t)
  ELSE h

\* a read that also drops the oldest of the recent timestamps
getHealthStatusDropsOldest(health, t) ==
  [ u \in DOMAIN health |->
      LET h == PruneErrors(health[u], t)
      IN  IF h.errors = << >> THEN h ELSE [h EXCEPT !.errors = Tail(@)] ]

\* getHealthStatus: calls calculateErrorRate for every configured upstream
getHealthStatus(health, t) ==
  [ u \in DOMAIN health |-> PruneErrors(health[u], t) ]

\* getAvailableUpstreams: Array.prototype.sort by priority (stable)
RECURSIVE InsertByPriority(_, _)
InsertByPriority(u, sorted) ==
  IF sorted = << >> THEN << u >>
  ELSE IF Head(sorted).priority <= u.priority
       THEN << Head(sorted) >> \o InsertByPriority(u, Tail(sorted))
       ELSE << u >> \o sorted

\* a roster handed on in its configured order
ConfiguredOrder(list) == list

RECURSIVE SortByPriority(_)
SortByPriority(list) ==
  IF list = << >> THEN << >>
  ELSE InsertByPriority(list[Len(list)],
                        SortByPriority(SubSeq(list, 1, Len(list) - 1)))

\* ---------------------------------------------------- BlockNumberExtractor
\* A JSON parameter: t is its JavaScript type; s the string, n the number,
\* fromBlock the filter object's fromBlock ("" when absent).
StrParam(str) == [t |-> "string", s |-> str, n |-> 0, fromBlock |-> ""]
NumParam(num) == [t |-> "number", s |-> "", n |-> num, fromBlock |-> ""]
ObjParam(from) == [t |-> "object", s |-> "", n |-> 0, fromBlock |-> from]
BoolParam == [t |-> "boolean", s |-> "", n |-> 0, fromBlock |-> ""]

\* context.blockNumber: null, 'latest', a number, or any other value the
\* extractor hands through (undefined, a boolean, an object)
NullBlock == [kind |-> "null", n |-> 0]
LatestBlock == [kind |-> "latest", n |-> 0]
NumberBlock(num) == [kind |-> "number", n |-> num]
OtherBlock == [kind |-> "other", n |-> 0]

CharAt(str, i) == SubSeq(str, i, i)

HexDigits == "0123456789abcdef"
HexDigitsUpper == "0123456789ABCDEF"

IsHexDigit(c) ==
  \E i \in 1..16 : CharAt(HexDigits, i) = c \/ CharAt(HexDigitsUpper, i) = c

HexValue(c) ==
  (CHOOSE i \in 1..16 : CharAt(HexDigits, i) = c \/ CharAt(HexDigitsUpper, i) = c) - 1

\* number of leading hex digits of str from position i on
RECURSIVE HexRun(_, _)
HexRun(str, i) ==
  IF i <= Len(str) /\ IsHexDigit(CharAt(str, i))
  THEN 1 + HexRun(str, i + 1)
  ELSE 0

RECURSIVE HexFold(_, _, _, _)
HexFold(str, i, last, acc) ==
  IF i > last THEN acc
  ELSE HexFold(str, i + 1, last, acc * 16 + HexValue(CharAt(str, i)))

\* parseInt(str, 16): optional sign, optional 0x prefix, then the longest
\* run of hex digits; NaN when that run is empty
ParseInt16(str) ==
  LET neg == Len(str) >= 1 /\ CharAt(str, 1) = "-"
      signed == Len(str) >= 1 /\ CharAt(str, 1) \in { "-", "+" }
      p0 == IF signed THEN 2 ELSE 1
      prefixed == /\ Len(str) >= p0 + 1
                  /\ CharAt(str, p0) = "0"
                  /\ CharAt(str, p0 + 1) \in { "x", "X" }
      p1 == IF prefixed THEN p0 + 2 ELSE p0
      run == HexRun(str, p1)
      mag == HexFold(str, p1, p1 + run - 1, 0)
  IN  [ nan |-> run = 0, n |-> IF run = 0 THEN 0 ELSE IF neg THEN -mag ELSE mag ]

ParsedBlock(str) ==
  IF ParseInt16(str).nan THEN NullBlock ELSE NumberBlock(ParseInt16(str).n)

\* blockNumberMethods: position of the block parameter (0-based), -1 if the
\* method is not in the table
blockNumberMethods(method) ==
  CASE method \in { "eth_getBlockByNumber",
                    "eth_getBlockTransactionCountByNumber",
                    "eth_getTransactionByBlockNumberAndIndex",
                    "eth_getUncleByBlockNumberAndIndex",
                    "eth_getUncleCountByBlockNumber",
                    "debug_traceBlockByNumber",
                    "trace_block", "trace_blockByNumber" } -> 0
    [] method \in { "eth_getBalance", "eth_getCode", "eth_call" } -> 1
    [] method = "eth_getStorageAt" -> 2
    [] OTHER -> -1

\* extract(method, params); hasParams is FALSE when the request has no
\* params array
extract(method, hasParams, params) ==
  IF ~hasParams THEN NullBlock
  ELSE IF method \notin historicalMethods THEN NullBlock
  ELSE IF blockNumberMethods(method) >= 0
    THEN LET idx == blockNumberMethods(method) + 1
         IN  IF idx > Len(params) THEN OtherBlock
             ELSE LET blockParam == params[idx]
                  IN  IF blockParam.t = "string"
                      THEN IF blockParam.s \in { "latest", "pending" }
                             THEN LatestBlock
                           ELSE IF blockParam.s = "earliest"
                             THEN NumberBlock(0)
                           ELSE ParsedBlock(blockParam.s)
                      ELSE IF blockParam.t = "number"
                        THEN NumberBlock(blockParam.n)
                      ELSE OtherBlock
  ELSE IF /\ method = "eth_getLogs"
          /\ Len(params) >= 1
          /\ params[1].t = "object"
          /\ params[1].fromBlock # ""
          /\ params[1].fromBlock \notin { "latest", "pending" }
    THEN ParsedBlock(params[1].fromBlock)
  ELSE NullBlock

\* ------------------------------------------------------- pipeline stages
\* A stage takes the routing context
\*   [method, blockNumber, availableUpstreams, allUpstreams, selectedUpstream,
\*    upstreamHealth, now]
\* and returns its RoutingResult plus the health map as it leaves it; threw
\* is TRUE when the stage raises an exception instead of returning.
\* allUpstreams is << >> when the context has no such property and
\* << list >> when it has.
Result(filtered, selected, continue, health) ==
  [ filteredUpstreams |-> filtered, selectedUpstream |-> selected,
    shouldContinue |-> continue, threw |-> FALSE, upstreamHealth |-> health ]

Thrown(ctx) ==
  [ filteredUpstreams |-> ctx.availableUpstreams, selectedUpstream |-> NoUpstream,
    shouldContinue |-> TRUE, threw |-> TRUE,
    upstreamHealth |-> ctx.upstreamHealth ]

Ids(list) == { list[i].id : i \in 1..Len(list) }

\* 1. ErrorRatesOps ('RecoveryFilter')
\* a recovery test that forgets the cooldown
RecoverableIgnoringCooldown(h, t) ==
  /\ ~h.isHealthy
  /\ RateBelow(Len(RecentErrors(h.errors, t)), Max(h.totalRequests, 1))

\* a recovery test that also waits for a success
RecoverableOnlyAfterSuccess(h, t) ==
  /\ ~h.isHealthy
  /\ h.failoverUntil < t
  /\ h.consecutiveErrors = 0
  /\ RateBelow(Len(RecentErrors(h.errors, t)), Max(h.totalRequests, 1))

\* a recovery test on the error rate of the whole lifetime
RecoverableByLifetimeRate(h, t) ==
  /\ ~h.isHealthy
  /\ h.failoverUntil < t
  /\ RateBelow(h.totalErrors, Max(h.totalRequests, 1))

Recoverable(h, t) ==
  /\ ~h.isHealthy
  /\ h.failoverUntil < t
  /\ RateBelow(Len(RecentErrors(h.errors, t)), Max(h.totalRequests, 1))

\* a recovery stage that passes on the healthy candidates only
ErrorRatesOpsDropsUnhealthy(ctx) ==
  LET health == ctx.upstreamHealth
      recoveredUpstreams ==
        SelectSeq(ctx.availableUpstreams,
                  LAMBDA u : Recoverable(health[u.id], ctx.now))
      healthAfter ==
        [ id \in DOMAIN health |->
            IF id \in Ids(recoveredUpstreams)
            THEN [health[id] EXCEPT !.isHealthy = TRUE]
            ELSE health[id] ]
      finalUpstreams ==
        SelectSeq(ctx.availableUpstreams,
                  LAMBDA u : healthAfter[u.id].isHealthy)
  IN  Result(finalUpstreams, NoUpstream, TRUE, healthAfter)

\* a recovery stage that also clears the failure streak of the upstreams
\* it recovers
ErrorRatesOpsResetsStreak(ctx) ==
  LET availableUpstreams == ctx.availableUpstreams
      health == ctx.upstreamHealth
      recoveredUpstreams ==
        SelectSeq(availableUpstreams,
                  LAMBDA u : Recoverable(health[u.id], ctx.now))
      healthAfter ==
        [ id \in DOMAIN health |->
            IF id \in Ids(recoveredUpstreams)
            THEN [health[id] EXCEPT !.isHealthy = TRUE,
                                    !.consecutiveErrors = 0]
            ELSE health[id] ]
  IN  Result(availableUpstreams, NoUpstream, Len(availableUpstreams) > 0,
             healthAfter)

ErrorRatesOps(ctx) ==
  LET availableUpstreams == ctx.availableUpstreams
      allUpstreams == availableUpstreams
      health == ctx.upstreamHealth
      recoveredUpstreams ==
        SelectSeq(allUpstreams, LAMBDA u : Recoverable(health[u.id], ctx.now))
      healthAfter ==
        [ id \in DOMAIN health |->
            IF id \in Ids(recoveredUpstreams)
            THEN [health[id] EXCEPT !.isHealthy = TRUE]
            ELSE health[id] ]
      finalUpstreams ==
        IF Len(availableUpstreams) > 0 THEN availableUpstreams
        ELSE recoveredUpstreams
  IN  IF Len(finalUpstreams) = 0
      THEN Result(allUpstreams, NoUpstream, Len(allUpstreams) > 0, healthAfter)
      ELSE Result(finalUpstreams, NoUpstream, TRUE, healthAfter)

\* 2. MethodRoutingOps ('MethodRouting')
EndsWith(str, c) == Len(str) >= 1 /\ CharAt(str, Len(str)) = c
StartsWith(str, prefix) ==
  Len(prefix) <= Len(str) /\ SubSeq(str, 1, Len(prefix)) = prefix

\* a matcher without wildcard support
PatternIgnoresExact(method, ignoredMethod) == method = ignoredMethod

PatternIgnores(method, ignoredMethod) ==
  IF EndsWith(ignoredMethod, "*")
  THEN StartsWith(method, SubSeq(ignoredMethod, 1, Len(ignoredMethod) - 1))
  ELSE method = ignoredMethod

\* `every` in place of `some`
isMethodIgnoredEvery(method, ignoredMethods) ==
  \A i \in 1..Len(ignoredMethods) : PatternIgnores(method, ignoredMethods[i])

isMethodIgnored(method, ignoredMethods) ==
  \E i \in 1..Len(ignoredMethods) : PatternIgnores(method, ignoredMethods[i])

\* a method filter that lets unhealthy upstreams through unexamined
MethodRoutingSkipsUnhealthy(ctx) ==
  LET filteredUpstreams ==
        SelectSeq(ctx.availableUpstreams,
                  LAMBDA u : \/ ~ctx.upstreamHealth[u.id].isHealthy
                             \/ ~isMethodIgnored(ctx.method, u.ignoredMethods))
  IN  Result(filteredUpstreams, NoUpstream, Len(filteredUpstreams) > 0,
             ctx.upstreamHealth)

\* a method filter that also marks the upstreams it drops unhealthy
MethodRoutingMarksDropped(ctx) ==
  LET filteredUpstreams ==
        SelectSeq(ctx.availableUpstreams,
                  LAMBDA u : ~isMethodIgnored(ctx.method, u.ignoredMethods))
      dropped == Ids(ctx.availableUpstreams) \ Ids(filteredUpstreams)
  IN  Result(filteredUpstreams, NoUpstream, Len(filteredUpstreams) > 0,
             [ id \in DOMAIN ctx.upstreamHealth |->
                 IF id \in dropped
                 THEN [ctx.upstreamHealth[id] EXCEPT !.isHealthy = FALSE]
                 ELSE ctx.upstreamHealth[id] ])

MethodRoutingOps(ctx) ==
  LET filteredUpstreams ==
        SelectSeq(ctx.availableUpstreams,
                  LAMBDA u : ~isMethodIgnored(ctx.method, u.ignoredMethods))
  IN  Result(filteredUpstreams, NoUpstream, Len(filteredUpstreams) > 0,
             ctx.upstreamHealth)

\* 3. BlockBasedRoutingOps ('BlockBasedRouting')
\* the activation-height test with the comparison turned round
EvmCompatibleInverted(u, blockNumber) ==
  ~(u.evmStartBlock # 0 /\ blockNumber > u.evmStartBlock)

EvmCompatible(u, blockNumber) ==
  ~(u.evmStartBlock # 0 /\ blockNumber < u.evmStartBlock)

NonArchive(list) == SelectSeq(list, LAMBDA u : u.type # "archive")
Archive(list) == SelectSeq(list, LAMBDA u : u.type = "archive")

PreferNonArchive(list) ==
  IF Len(NonArchive(list)) > 0 THEN NonArchive(list) ELSE list

\* a block stage that applies the activation heights and prefers nothing
BlockBasedRoutingNoPreference(ctx) ==
  Result(IF ctx.blockNumber.kind = "number"
         THEN SelectSeq(ctx.availableUpstreams,
                        LAMBDA u : EvmCompatible(u, ctx.blockNumber.n))
         ELSE ctx.availableUpstreams,
         NoUpstream, TRUE, ctx.upstreamHealth)

\* a block stage that asks to stop when it is handed no candidate
BlockBasedRoutingHaltsOnEmpty(ctx) ==
  LET availableUpstreams == ctx.availableUpstreams
      blockNumber == ctx.blockNumber
      isNumber == blockNumber.kind = "number"
      evmCompatibleUpstreams ==
        IF isNumber
        THEN SelectSeq(availableUpstreams,
                       LAMBDA u : EvmCompatible(u, blockNumber.n))
        ELSE availableUpstreams
      isHistoricalMethod == ctx.method \in historicalMethods
      health == ctx.upstreamHealth
  IN  IF Len(availableUpstreams) = 0
        THEN Result(<< >>, NoUpstream, FALSE, health)
      ELSE IF isNumber /\ Len(evmCompatibleUpstreams) = 0
        THEN Result(<< >>, NoUpstream, FALSE, health)
      ELSE IF ~isHistoricalMethod \/ blockNumber.kind \in { "null", "latest" }
        THEN Result(PreferNonArchive(evmCompatibleUpstreams), NoUpstream, TRUE, health)
      ELSE IF /\ isNumber
              /\ blockNumber.n < OldBlockCutoff
              /\ Len(Archive(evmCompatibleUpstreams)) > 0
        THEN Result(Archive(evmCompatibleUpstreams), NoUpstream, TRUE, health)
      ELSE Result(PreferNonArchive(evmCompatibleUpstreams), NoUpstream, TRUE, health)

\* a block stage for which the block at the boundary is still old
BlockBasedRoutingCutoffInclusive(ctx) ==
  LET availableUpstreams == ctx.availableUpstreams
      blockNumber == ctx.blockNumber
      isNumber == blockNumber.kind = "number"
      evmCompatibleUpstreams ==
        IF isNumber
        THEN SelectSeq(availableUpstreams,
                       LAMBDA u : EvmCompatible(u, blockNumber.n))
        ELSE availableUpstreams
      isHistoricalMethod == ctx.method \in historicalMethods
      health == ctx.upstreamHealth
  IN  IF Len(availableUpstreams) = 0
        THEN Result(<< >>, NoUpstream, TRUE, health)
      ELSE IF isNumber /\ Len(evmCompatibleUpstreams) = 0
        THEN Result(<< >>, NoUpstream, TRUE, health)
      ELSE IF ~isHistoricalMethod \/ blockNumber.kind \in { "null", "latest" }
        THEN Result(PreferNonArchive(evmCompatibleUpstreams), NoUpstream, TRUE, health)
      ELSE IF /\ isNumber
              /\ blockNumber.n <= OldBlockCutoff
              /\ Len(Archive(evmCompatibleUpstreams)) > 0
        THEN Result(Archive(evmCompatibleUpstreams), NoUpstream, TRUE, health)
      ELSE Result(PreferNonArchive(evmCompatibleUpstreams), NoUpstream, TRUE, health)

BlockBasedRoutingOps(ctx) ==
  LET availableUpstreams == ctx.availableUpstreams
      blockNumber == ctx.blockNumber
      isNumber == blockNumber.kind = "number"
      evmCompatibleUpstreams ==
        IF isNumber
        THEN SelectSeq(availableUpstreams,
                       LAMBDA u : EvmCompatible(u, blockNumber.n))
        ELSE availableUpstreams
      isHistoricalMethod == ctx.method \in historicalMethods
      health == ctx.upstreamHealth
  IN  IF Len(availableUpstreams) = 0
        THEN Result(<< >>, NoUpstream, TRUE, health)
      ELSE IF isNumber /\ Len(evmCompatibleUpstreams) = 0
        THEN Result(<< >>, NoUpstream, TRUE, health)
      ELSE IF ~isHistoricalMethod \/ blockNumber.kind \in { "null", "latest" }
        THEN Result(PreferNonArchive(evmCompatibleUpstreams), NoUpstream, TRUE, health)
      ELSE IF /\ isNumber
              /\ blockNumber.n < OldBlockCutoff
              /\ Len(Archive(evmCompatibleUpstreams)) > 0
        THEN Result(Archive(evmCompatibleUpstreams), NoUpstream, TRUE, health)
      ELSE Result(PreferNonArchive(evmCompatibleUpstreams), NoUpstream, TRUE, health)

\* 4. PriorityRoutingOps ('HealthFiltering'): drop unhealthy candidates,
\*    sort the rest by priority, halt when nothing is left
\* a health stage that sorts but drops nobody
HealthFilteringKeepsAll(ctx) ==
  Result(SortByPriority(ctx.availableUpstreams), NoUpstream,
         Len(ctx.availableUpstreams) > 0, ctx.upstreamHealth)

\* a health stage that drops the unhealthy but leaves the order as it is
HealthFilteringUnsorted(ctx) ==
  LET healthy ==
        SelectSeq(ctx.availableUpstreams,
                  LAMBDA u : ctx.upstreamHealth[u.id].isHealthy)
  IN  Result(healthy, NoUpstream, Len(healthy) > 0, ctx.upstreamHealth)

HealthFilteringOps(ctx) ==
  LET healthy ==
        SelectSeq(ctx.availableUpstreams,
                  LAMBDA u : ctx.upstreamHealth[u.id].isHealthy)
      sorted == SortByPriority(healthy)
  IN  Result(sorted, NoUpstream, Len(sorted) > 0, ctx.upstreamHealth)

\* an archive stage that adds the roster's archive upstreams to whatever
\* it is given
FallbackArchivalAddsArchives(ctx) ==
  Result(ctx.availableUpstreams \o
           SelectSeq(Archive(upstreams),
                     LAMBDA u : u.id \notin Ids(ctx.availableUpstreams)),
         NoUpstream, TRUE, ctx.upstreamHealth)

\* an archive stage that narrows the candidates of a historical method with
\* a numeric block to the archive ones
FallbackArchivalPrefersArchives(ctx) ==
  LET availableUpstreams == ctx.availableUpstreams
      isHistoricalMethod == ctx.method \in historicalMethods
      archiveUpstreams == Archive(availableUpstreams)
  IN  IF /\ isHistoricalMethod
         /\ ctx.blockNumber.kind = "number"
         /\ Len(archiveUpstreams) > 0
      THEN Result(archiveUpstreams, NoUpstream, TRUE, ctx.upstreamHealth)
      ELSE Result(availableUpstreams, NoUpstream,
                  Len(availableUpstreams) > 0, ctx.upstreamHealth)

\* 5. FallbackArchivalRoutingOps ('ArchiveFilter')
FallbackArchivalRoutingOps(ctx) ==
  LET availableUpstreams == ctx.availableUpstreams
      health == ctx.upstreamHealth
  IN  IF Len(availableUpstreams) = 0
      THEN IF ctx.allUpstreams = << >>
             THEN Thrown(ctx)     \* undefined.filter(...)
           ELSE IF Len(Archive(ctx.allUpstreams[1])) > 0
             THEN Result(Archive(ctx.allUpstreams[1]), NoUpstream, TRUE, health)
           ELSE Result(<< >>, NoUpstream, FALSE, health)
      ELSE Result(availableUpstreams, NoUpstream, TRUE, health)

\* 6. FinalSelectorOps ('FinalSelector')
FinalSelectorOps(ctx) ==
  IF Len(ctx.availableUpstreams) = 0
  THEN Result(<< >>, NoUpstream, FALSE, ctx.upstreamHealth)
  ELSE Result(ctx.availableUpstreams, << ctx.availableUpstreams[1] >>, TRUE,
              ctx.upstreamHealth)

\* 7. MetricsHandlingOps ('MetricsHandling')
MetricsHandlingOps(ctx) ==
  LET health == ctx.upstreamHealth
      selectedUpstream == ctx.selectedUpstream
      id == selectedUpstream[1].id
  IN  IF selectedUpstream # NoUpstream
      THEN Result(selectedUpstream, selectedUpstream, TRUE,
                  IF id \in DOMAIN health
                  THEN [health EXCEPT
                          ![id].totalRequests = @ + 1,
                          ![id].methodStats =
                             IF ctx.method \in DOMAIN @
                             THEN [@ EXCEPT ![ctx.method] = @ + 1]
                             ELSE (ctx.method :> 1) @@ @]
                  ELSE health)
      ELSE Result(ctx.availableUpstreams, NoUpstream, FALSE, health)

\* the pipe registered by initializeServices
Operations ==
  << "RecoveryFilter", "MethodRouting", "BlockBasedRouting",
     "HealthFiltering", "ArchiveFilter", "FinalSelector", "MetricsHandling" >>

RunOperation(name, ctx) ==
  CASE name = "RecoveryFilter" -> ErrorRatesOps(ctx)
    [] name = "MethodRouting" -> MethodRoutingOps(ctx)
    [] name = "BlockBasedRouting" -> BlockBasedRoutingOps(ctx)
    [] name = "HealthFiltering" -> HealthFilteringOps(ctx)
    [] name = "ArchiveFilter" -> FallbackArchivalRoutingOps(ctx)
    [] name = "FinalSelector" -> FinalSelectorOps(ctx)
    [] name = "MetricsHandling" -> MetricsHandlingOps(ctx)

\* ------------------------------------------------------ NodeStatusService
NoStatus ==
  [ known |-> FALSE, earliestBlockHeight |-> 0, latestBlockHeight |-> 0,
    catchingUp |-> FALSE, lastUpdated |-> 0 ]

\* the status assumed without a status URL or after a failed fetch
AssumedStatus(t) ==
  [ known |-> TRUE, earliestBlockHeight |-> 0,
    latestBlockHeight |-> AssumedLatestBlock, catchingUp |-> FALSE,
    lastUpdated |-> t ]

\* the status parsed from sync_info
FetchedStatus(t) ==
  [ known |-> TRUE, earliestBlockHeight |-> 1, latestBlockHeight |-> MaxBlock,
    catchingUp |-> FALSE, lastUpdated |-> t ]

\* config.upstreams.find(u => u.statusUrl)
LocalUpstream(list) ==
  LET withUrl == SelectSeq(list, LAMBDA u : u.statusUrl)
  IN  IF withUrl = << >> THEN NoUpstream ELSE << withUrl[1] >>

\* the throttle test at the top of getStatus
StatusIsFresh(t, lastCheck) == t - lastCheck < statusCheckInterval

\* ------------------------------------------------------------- requests
NoResponse == [ status |-> 0, code |-> 0, upstream |-> "" ]
UpstreamResponse(id) == [ status |-> OkStatus, code |-> 0, upstream |-> id ]
HealthReport == [ status |-> OkStatus, code |-> 0, upstream |-> "" ]
NoUpstreamsError ==
  [ status |-> BadGatewayStatus, code |-> InternalErrorCode, upstream |-> "" ]

\* pc: idle, fetching (status fetch in flight), context (status known),
\* pipeline (between two operations), proxying (outbound call in flight),
\* done (replied).  events are the operations started for the request,
\* proxied the upstreams proxyRequest was called with, proxyResult what
\* logRequestProxy logged ("ok" or "failed"), recorded the number of
\* outcomes proxyRequest recorded for it; hasParams and params are the
\* params of the JSON-RPC request (context.request).
IdleRequest ==
  [ pc |-> "idle", kind |-> "rpc", method |-> "", hasParams |-> FALSE,
    params |-> << >>, blockNumber |-> NullBlock,
    availableUpstreams |-> << >>, selectedUpstream |-> NoUpstream,
    selectedBy |-> "", opIndex |-> 0, events |-> << >>, proxied |-> << >>,
    proxyResult |-> "", recorded |-> 0, error |-> FALSE, statusNow |-> 0,
    response |-> NoResponse ]

HexString(k) == "0x" \o CharAt(HexDigits, k + 1)

Address == StrParam("0xabc")

\* the JSON-RPC requests clients send
RpcRequests ==
  { [method |-> "eth_chainId", hasParams |-> FALSE, params |-> << >>],
    [method |-> "debug_traceBlockByNumber", hasParams |-> TRUE,
     params |-> << StrParam("0x1") >>],
    [method |-> "eth_getLogs", hasParams |-> TRUE,
     params |-> << ObjParam("0x0") >>] }
  \cup
  { [method |-> "eth_getBalance", hasParams |-> TRUE,
     params |-> << Address, StrParam(HexString(k)) >>] : k \in 0..MaxBlock }

\* a last resort that falls back to the whole roster
LastResortFromRoster(selectedUpstream, availableUpstreams) ==
  IF selectedUpstream # NoUpstream THEN selectedUpstream
  ELSE IF Len(availableUpstreams) > 0 THEN << availableUpstreams[1] >>
  ELSE << upstreams[1] >>

\* a last resort that takes the last candidate
LastResortLastCandidate(selectedUpstream, availableUpstreams) ==
  IF selectedUpstream = NoUpstream /\ Len(availableUpstreams) > 0
  THEN << availableUpstreams[Len(availableUpstreams)] >>
  ELSE selectedUpstream

\* lines 94-102: last resort
LastResort(selectedUpstream, availableUpstreams) ==
  IF selectedUpstream = NoUpstream /\ Len(availableUpstreams) > 0
  THEN << availableUpstreams[1] >>
  ELSE selectedUpstream

\* lines 94-146 up to the await of proxyRequest: last resort, then either
\* the outbound call is started or the error is sent
AfterPipeline(q) ==
  LET selectedUpstream == LastResort(q.selectedUpstream, q.availableUpstreams)
      q1 == [q EXCEPT !.selectedUpstream = selectedUpstream,
                      !.selectedBy = IF q.selectedUpstream = NoUpstream
                                        /\ selectedUpstream # NoUpstream
                                     THEN "LastResort" ELSE @]
  IN  IF selectedUpstream # NoUpstream
      THEN [q1 EXCEPT !.pc = "proxying",
                      !.proxied = Append(@, selectedUpstream[1].id)]
      ELSE [q1 EXCEPT !.pc = "done", !.response = NoUpstreamsError]

NextOperation(q) ==
  IF q.opIndex < Len(Operations)
  THEN [q EXCEPT !.opIndex = @ + 1]
  ELSE AfterPipeline(q)

\* a loop whose catch block gives the request up
AfterOperationFailClosed(q, result) ==
  IF result.threw
    THEN [q EXCEPT !.error = TRUE, !.availableUpstreams = << >>,
                   !.pc = "done", !.response = NoUpstreamsError]
  ELSE IF result.selectedUpstream # NoUpstream
    THEN AfterPipeline([q EXCEPT !.selectedUpstream = result.selectedUpstream,
                                 !.selectedBy = Operations[q.opIndex]])
  ELSE LET q1 == [q EXCEPT !.availableUpstreams = result.filteredUpstreams]
       IN  IF ~result.shouldContinue \/ Len(q1.availableUpstreams) = 0
           THEN AfterPipeline(q1)
           ELSE NextOperation(q1)

\* a loop that stops only when an operation asks for it
AfterOperationIgnoresEmpty(q, result) ==
  IF result.threw
    THEN NextOperation([q EXCEPT !.error = TRUE])
  ELSE IF result.selectedUpstream # NoUpstream
    THEN AfterPipeline([q EXCEPT !.selectedUpstream = result.selectedUpstream,
                                 !.selectedBy = Operations[q.opIndex]])
  ELSE LET q1 == [q EXCEPT !.availableUpstreams = result.filteredUpstreams]
       IN  IF ~result.shouldContinue
           THEN AfterPipeline(q1)
           ELSE NextOperation(q1)

\* a loop that goes on to the later operations after a selection
AfterOperationKeepsGoing(q, result) ==
  IF result.threw
    THEN NextOperation([q EXCEPT !.error = TRUE])
  ELSE IF result.selectedUpstream # NoUpstream
    THEN NextOperation([q EXCEPT !.selectedUpstream = result.selectedUpstream,
                                 !.selectedBy = IF @ = ""
                                                THEN Operations[q.opIndex]
                                                ELSE @])
  ELSE LET q1 == [q EXCEPT !.availableUpstreams = result.filteredUpstreams]
       IN  IF ~result.shouldContinue \/ Len(q1.availableUpstreams) = 0
           THEN AfterPipeline(q1)
           ELSE NextOperation(q1)

\* body of the for loop, lines 50-92, for the result of one operation
AfterOperation(q, result) ==
  IF result.threw
    THEN NextOperation([q EXCEPT !.error = TRUE])
  ELSE IF result.selectedUpstream # NoUpstream
    THEN AfterPipeline([q EXCEPT !.selectedUpstream = result.selectedUpstream,
                                 !.selectedBy = Operations[q.opIndex]])
  ELSE LET q1 == [q EXCEPT !.availableUpstreams = result.filteredUpstreams]
       IN  IF ~result.shouldContinue \/ Len(q1.availableUpstreams) = 0
           THEN AfterPipeline(q1)
           ELSE NextOperation(q1)

\* a gateway that tries the next candidate after a failed call
AfterProxyRetry(q, success) ==
  LET rest == SelectSeq(q.availableUpstreams,
                        LAMBDA u : \A i \in 1..Len(q.proxied) : q.proxied[i] # u.id)
  IN  IF success
      THEN [q EXCEPT !.pc = "done", !.proxyResult = "ok",
                     !.response = UpstreamResponse(q.selectedUpstream[1].id)]
      ELSE IF rest # << >>
      THEN [q EXCEPT !.proxyResult = "failed",
                     !.selectedUpstream = << rest[1] >>,
                     !.proxied = Append(@, rest[1].id)]
      ELSE [q EXCEPT !.pc = "done", !.proxyResult = "failed",
                     !.response = NoUpstreamsError]

\* a gateway that sends nothing after a failed call
AfterProxyNoReply(q, success) ==
  IF success
  THEN [q EXCEPT !.pc = "done", !.proxyResult = "ok",
                 !.response = UpstreamResponse(q.selectedUpstream[1].id)]
  ELSE [q EXCEPT !.pc = "failed", !.proxyResult = "failed"]

\* lines 106-146 after the await of proxyRequest
AfterProxy(q, success) ==
  IF success
  THEN [q EXCEPT !.pc = "done", !.proxyResult = "ok",
                 !.response = UpstreamResponse(q.selectedUpstream[1].id)]
  ELSE [q EXCEPT !.pc = "done", !.proxyResult = "failed",
                 !.response = NoUpstreamsError]

\* what the caller of getStatus does once the status is known
AfterStatus(q) ==
  IF q.kind = "rpc"
  THEN [q EXCEPT !.pc = "context"]
  ELSE [q EXCEPT !.pc = "done", !.response = HealthReport]

\* ---------------------------------------------------------------- actions
\* bookkeeping of the outcomes handed to recordRequestResult
NoOutcomes == [ total |-> 0, failures |-> 0, streak |-> 0 ]
Count(o, success) ==
  [ total |-> o.total + 1,
    failures |-> IF success THEN o.failures ELSE o.failures + 1,
    streak |-> IF success THEN 0 ELSE o.streak + 1 ]

Init ==
  /\ now = StartTime
  /\ upstreams \in Rosters
  /\ upstreamHealth = [ id \in Ids(upstreams) |-> InitialHealth ]
  /\ localNodeStatus = NoStatus
  /\ lastStatusCheck = 0
  /\ req = [ r \in Slots |-> IdleRequest ]
  /\ started = 0
  /\ lastFetchStart = -1
  /\ outcomes = [ id \in Ids(upstreams) |-> NoOutcomes ]

\* Node runs the continuations that are already runnable (the pipeline of a
\* request whose status is known, the end of a replied request) before it
\* takes the next timer or I/O event
Runnable(r) == req[r].pc \in { "context", "pipeline", "done" }
\* an event loop that takes I/O events between two operations of a pipeline
EventLoopTakesEventsAnytime == TRUE

EventLoopIdle == \A r \in Slots : ~Runnable(r)

\* a new request takes the first free slot
FreeSlot(r) ==
  /\ req[r].pc = "idle"
  /\ \A other \in 1..(r - 1) : req[other].pc # "idle"

\* time passes
Tick ==
  /\ EventLoopIdle
  /\ now < MaxTime
  /\ now' = now + 1
  /\ UNCHANGED << upstreams, upstreamHealth, localNodeStatus, lastStatusCheck,
                  req, started, lastFetchStart, outcomes >>

\* getStatus() up to its first await, called for the request q of slot r
CallGetStatus(r, q) ==
  IF StatusIsFresh(now, lastStatusCheck)
    THEN /\ req' = [req EXCEPT ![r] = AfterStatus(q)]
         /\ UNCHANGED << localNodeStatus, lastStatusCheck, lastFetchStart >>
  ELSE IF LocalUpstream(upstreams) = NoUpstream
    THEN /\ localNodeStatus' = AssumedStatus(now)
         /\ lastStatusCheck' = now
         /\ req' = [req EXCEPT ![r] = AfterStatus(q)]
         /\ UNCHANGED lastFetchStart
  ELSE /\ req' = [req EXCEPT ![r] = [q EXCEPT !.pc = "fetching",
                                              !.statusNow = now]]
       /\ lastFetchStart' = now
       /\ UNCHANGED << localNodeStatus, lastStatusCheck >>

\* POST /: execute() up to the await of getStatus (lines 23-33)
ReceiveRpc(r) ==
  /\ EventLoopIdle
  /\ FreeSlot(r)
  /\ started < MaxRequests
  /\ \E request \in RpcRequests :
       CallGetStatus(r, [IdleRequest EXCEPT
                           !.kind = "rpc",
                           !.method = request.method,
                           !.hasParams = request.hasParams,
                           !.params = request.params,
                           !.blockNumber = extract(request.method,
                                                   request.hasParams,
                                                   request.params)])
  /\ started' = started + 1
  /\ UNCHANGED << now, upstreams, upstreamHealth, outcomes >>

\* GET /health and GET /metrics: getHealthStatus(), then getStatus()
ReceiveHealth(r) ==
  /\ EventLoopIdle
  /\ FreeSlot(r)
  /\ started < MaxRequests
  /\ upstreamHealth' = getHealthStatus(upstreamHealth, now)
  /\ CallGetStatus(r, [IdleRequest EXCEPT !.kind = "health"])
  /\ started' = started + 1
  /\ UNCHANGED << now, upstreams, outcomes >>

\* the status fetch of slot r ends (answer, error or timeout): the rest of
\* getStatus, lines 52-107
StatusFetched(r) ==
  /\ EventLoopIdle
  /\ req[r].pc = "fetching"
  /\ \E ok \in BOOLEAN :
       LET id == LocalUpstream(upstreams)[1].id
           t == req[r].statusNow
       IN  /\ upstreamHealth' =
                [upstreamHealth EXCEPT
                   ![id] = recordRequestResult(@, ok, now)]
           /\ outcomes' = [outcomes EXCEPT ![id] = Count(@, ok)]
           /\ localNodeStatus' =
                IF ok THEN FetchedStatus(t) ELSE AssumedStatus(t)
           /\ lastStatusCheck' = t
  /\ req' = [req EXCEPT ![r] = AfterStatus(@)]
  /\ UNCHANGED << now, upstreams, started, lastFetchStart >>

\* execute() lines 34-47: the roster is sorted in place and the context built
BuildContext(r) ==
  /\ req[r].pc = "context"
  /\ upstreams' = SortByPriority(upstreams)
  /\ req' = [req EXCEPT ![r].pc = "pipeline",
                        ![r].availableUpstreams = SortByPriority(upstreams),
                        ![r].opIndex = 1]
  /\ UNCHANGED << now, upstreamHealth, localNodeStatus, lastStatusCheck,
                  started, lastFetchStart, outcomes >>

Context(q) ==
  [ method |-> q.method, blockNumber |-> q.blockNumber,
    availableUpstreams |-> q.availableUpstreams, allUpstreams |-> << >>,
    selectedUpstream |-> q.selectedUpstream,
    upstreamHealth |-> upstreamHealth, now |-> now ]

\* one iteration of the pipeline loop; when the loop ends, the code up to
\* the start of the outbound call (or the error reply) runs with it
ExecuteOperation(r) ==
  /\ req[r].pc = "pipeline"
  /\ LET q == [req[r] EXCEPT !.events = Append(@, Operations[req[r].opIndex])]
         result == RunOperation(Operations[q.opIndex], Context(q))
     IN  /\ upstreamHealth' = result.upstreamHealth
         /\ req' = [req EXCEPT ![r] = AfterOperation(q, result)]
  /\ UNCHANGED << now, upstreams, localNodeStatus, lastStatusCheck, started,
                  lastFetchStart, outcomes >>

\* the outbound call of slot r ends: the rest of proxyRequest, then the
\* rest of execute()
ProxyResponds(r) ==
  /\ EventLoopIdle
  /\ req[r].pc = "proxying"
  /\ \E success \in BOOLEAN :
       LET id == req[r].selectedUpstream[1].id
       IN  /\ upstreamHealth' =
                [upstreamHealth EXCEPT
                   ![id] = recordRequestResult(@, success, now)]
           /\ outcomes' = [outcomes EXCEPT ![id] = Count(@, success)]
           /\ req' = [req EXCEPT
                        ![r] = AfterProxy([@ EXCEPT !.recorded = @ + 1],
                                          success)]
  /\ UNCHANGED << now, upstreams, localNodeStatus, lastStatusCheck, started,
                  lastFetchStart >>

\* the reply has been sent: the request is gone
Complete(r) ==
  /\ req[r].pc = "done"
  /\ req' = [req EXCEPT ![r] = IdleRequest]
  /\ UNCHANGED << now, upstreams, upstreamHealth, localNodeStatus,
                  lastStatusCheck, started, lastFetchStart, outcomes >>

Next ==
  \/ Tick
  \/ \E r \in Slots : ReceiveRpc(r)
  \/ \E r \in Slots : ReceiveHealth(r)
  \/ \E r \in Slots : StatusFetched(r)
  \/ \E r \in Slots : BuildContext(r)
  \/ \E r \in Slots : ExecuteOperation(r)
  \/ \E r \in Slots : ProxyResponds(r)
  \/ \E r \in Slots : Complete(r)

Spec == Init /\ [][Next]_vars

TypeOK ==
  /\ now \in StartTime..MaxTime
  /\ started \in 0..MaxRequests
  /\ \A r \in Slots : req[r].pc \in
       { "idle", "fetching", "context", "pipeline", "proxying", "done" }

\* ------------------------------------------------- stages in isolation
\* The operations are public classes: execute(context) can be called with
\* any context, as the pipeline tests do.  StageSpec builds health records
\* by recording outcomes, then runs the orchestrator's loop from any stage
\* over any candidate list drawn from the roster.
RosterC ==
  << [id |-> "slow-node", type |-> "full", priority |-> 1,
      statusUrl |-> FALSE, ignoredMethods |-> << "eth_*" >>,
      evmStartBlock |-> 0],
     [id |-> "fast-node", type |-> "full", priority |-> 1,
      statusUrl |-> FALSE, ignoredMethods |-> << "eth_*Logs", "trace_*" >>,
      evmStartBlock |-> 0] >>

StageRosters == Rosters \cup { RosterC }

\* the requests of the stage runs: a historical method with a block number,
\* a method under a wildcard entry, two method names at the boundary of the
\* prefix "eth_", and a historical method for the latest block and for the
\* two heights at the boundary between old and recent blocks
StageRequests ==
  { [method |-> "eth_getLogs", hasParams |-> TRUE,
     params |-> << ObjParam("0x0") >>],
    [method |-> "debug_traceBlockByNumber", hasParams |-> TRUE,
     params |-> << StrParam("0x1") >>],
    [method |-> "eth_", hasParams |-> FALSE, params |-> << >>],
    [method |-> "eth", hasParams |-> FALSE, params |-> << >>],
    [method |-> "eth_getBalance", hasParams |-> TRUE,
     params |-> << Address, StrParam("latest") >>] }
  \cup
  { [method |-> "eth_getBalance", hasParams |-> TRUE,
     params |-> << Address, NumParam(n) >>] :
      n \in { OldBlockCutoff - 1, OldBlockCutoff } }

\* the request of the runs that start from a used health record
PlainRequest == [method |-> "eth_", hasParams |-> FALSE, params |-> << >>]

Range(f) == { f[i] : i \in DOMAIN f }

\* every list of distinct upstreams of the roster, in every order
CandidateLists(roster) ==
  { list \in UNION { [1..n -> Range(roster)] : n \in 0..Len(roster) } :
      \A i, j \in DOMAIN list : i # j => list[i] # list[j] }

StageInit ==
  /\ now = StartTime
  /\ upstreams \in StageRosters
  /\ upstreamHealth = [ id \in Ids(upstreams) |-> InitialHealth ]
  /\ localNodeStatus = NoStatus
  /\ lastStatusCheck = 0
  /\ req = [ r \in Slots |-> IdleRequest ]
  /\ started = 0
  /\ lastFetchStart = -1
  /\ outcomes = [ id \in Ids(upstreams) |-> NoOutcomes ]

NoRunInProgress == \A r \in Slots : req[r].pc = "idle"

RECURSIVE SumOfTotals(_)
SumOfTotals(ids) ==
  IF ids = { } THEN 0
  ELSE LET id == CHOOSE x \in ids : TRUE
       IN  outcomes[id].total + SumOfTotals(ids \ { id })

\* the number of outcomes recorded so far
OutcomesRecorded == SumOfTotals(DOMAIN outcomes)

\* time passes between two runs
StageTick == NoRunInProgress /\ Tick

\* an outbound call to upstream id ends and its outcome is recorded
RecordOutcome(id, success) ==
  /\ NoRunInProgress
  /\ id \in DOMAIN upstreamHealth
  /\ OutcomesRecorded < MaxOutcomes
  /\ upstreamHealth' =
       [upstreamHealth EXCEPT ![id] = recordRequestResult(@, success, now)]
  /\ outcomes' = [outcomes EXCEPT ![id] = Count(@, success)]
  /\ UNCHANGED << now, upstreams, localNodeStatus, lastStatusCheck, req,
                  started, lastFetchStart >>

\* the error rates are read (getHealthStatus)
ReadErrorRate ==
  /\ NoRunInProgress
  /\ upstreamHealth' = getHealthStatus(upstreamHealth, now)
  /\ UNCHANGED << now, upstreams, localNodeStatus, lastStatusCheck, req,
                  started, lastFetchStart, outcomes >>

\* the context of a run: request, candidate list and first operation
EnterPipeline(r, request, list, i) ==
  /\ NoRunInProgress
  /\ FreeSlot(r)
  /\ req' = [req EXCEPT ![r] =
               [IdleRequest EXCEPT
                  !.pc = "pipeline",
                  !.method = request.method,
                  !.hasParams = request.hasParams,
                  !.params = request.params,
                  !.blockNumber = extract(request.method, request.hasParams,
                                          request.params),
                  !.availableUpstreams = list,
                  !.opIndex = i]]
  /\ UNCHANGED << now, upstreams, upstreamHealth, localNodeStatus,
                  lastStatusCheck, started, lastFetchStart, outcomes >>

\* a run over fresh health records: any request, any list, any operation.
\* MethodRouting and BlockBasedRouting do not read the health records.
StartPipeline(r) ==
  /\ OutcomesRecorded = 0
  /\ \E request \in StageRequests, list \in CandidateLists(upstreams),
        i \in 1..Len(Operations) :
       EnterPipeline(r, request, list, i)

\* a run over used health records: any list, entered at the first
\* operation
StartRecovery(r) ==
  /\ OutcomesRecorded > 0
  /\ \E list \in CandidateLists(upstreams) :
       EnterPipeline(r, PlainRequest, list, 1)

\* the operation at hand raises an exception: the catch block of the loop
StageThrows(r) ==
  /\ req[r].pc = "pipeline"
  /\ ~req[r].error
  /\ LET q == [req[r] EXCEPT !.events = Append(@, Operations[req[r].opIndex])]
     IN  req' = [req EXCEPT ![r] = AfterOperation(q, Thrown(Context(q)))]
  /\ UNCHANGED << now, upstreams, upstreamHealth, localNodeStatus,
                  lastStatusCheck, started, lastFetchStart, outcomes >>

\* the run is over (an upstream chosen, or none left)
Discard(r) ==
  /\ req[r].pc \in { "proxying", "done" }
  /\ req' = [req EXCEPT ![r] = IdleRequest]
  /\ UNCHANGED << now, upstreams, upstreamHealth, localNodeStatus,
                  lastStatusCheck, started, lastFetchStart, outcomes >>

StageNext ==
  \/ StageTick
  \/ \E id \in UpstreamIds, success \in BOOLEAN : RecordOutcome(id, success)
  \/ ReadErrorRate
  \/ \E r \in Slots : StartPipeline(r)
  \/ \E r \in Slots : StartRecovery(r)
  \/ \E r \in Slots : ExecuteOperation(r)
  \/ \E r \in Slots : StageThrows(r)
  \/ \E r \in Slots : Discard(r)

StageSpec == StageInit /\ [][StageNext]_vars

\* ------------------------------------------------ runs that keep arriving
\* a run as the orchestrator starts it: the whole roster, sorted by
\* priority, entered at the first operation
StartRun(r) ==
  /\ OutcomesRecorded > 0
  /\ EnterPipeline(r, PlainRequest, SortByPriority(upstreams), 1)

RecoveryNext ==
  \/ StageTick
  \/ \E id \in UpstreamIds, success \in BOOLEAN : RecordOutcome(id, success)
  \/ \E r \in Slots : StartRun(r)
  \/ \E r \in Slots : ExecuteOperation(r)
  \/ \E r \in Slots : Discard(r)

\* Time passes however many runs there are, requests keep arriving, and a
\* run that was started is carried through.
RecoveryFairness ==
  /\ SF_vars(StageTick)
  /\ WF_vars(\E r \in Slots : StartRun(r))
  /\ \A r \in Slots : WF_vars(ExecuteOperation(r))
  /\ \A r \in Slots : WF_vars(Discard(r))

RecoverySpec == StageInit /\ [][RecoveryNext]_vars /\ RecoveryFairness

\* ------------------------------------------------ block references
\* the block parameters clients send: the three tags, a hex quantity, a
\* bare prefix, and two tags of later JSON-RPC versions
BlockStrings ==
  { "latest", "pending", "earliest", "0x1", "0x", "safe", "finalized" }

\* requests with the block parameter at position 0, at position 1, in a
\* filter object, missing, or of another type; a method outside
\* historicalMethods, and one inside it that has no block parameter
ExtractRequests ==
  { [method |-> "eth_chainId", hasParams |-> FALSE, params |-> << >>],
    [method |-> "eth_chainId", hasParams |-> TRUE,
     params |-> << StrParam("0x1") >>],
    [method |-> "debug_traceTransaction", hasParams |-> TRUE,
     params |-> << StrParam("0x1") >>],
    [method |-> "eth_getBlockByNumber", hasParams |-> FALSE, params |-> << >>],
    [method |-> "eth_getBlockByNumber", hasParams |-> TRUE, params |-> << >>],
    [method |-> "eth_getBlockByNumber", hasParams |-> TRUE,
     params |-> << BoolParam >>],
    [method |-> "eth_getBlockByNumber", hasParams |-> TRUE,
     params |-> << NumParam(1) >>],
    [method |-> "eth_getBalance", hasParams |-> TRUE,
     params |-> << Address >>],
    [method |-> "eth_getLogs", hasParams |-> TRUE,
     params |-> << ObjParam("") >>],
    [method |-> "eth_getLogs", hasParams |-> TRUE,
     params |-> << StrParam("0x1") >>] }
  \cup
  { [method |-> "eth_getBlockByNumber", hasParams |-> TRUE,
     params |-> << StrParam(str) >>] : str \in BlockStrings }
  \cup
  { [method |-> "eth_getBalance", hasParams |-> TRUE,
     params |-> << Address, StrParam(str) >>] : str \in BlockStrings }
  \cup
  { [method |-> "eth_getLogs", hasParams |-> TRUE,
     params |-> << ObjParam(str) >>] : str \in BlockStrings }

\* POST / with one of these requests: the block reference is extracted and
\* the pipeline entered with the sorted roster
ReceiveRequest(r) ==
  \E request \in ExtractRequests :
    EnterPipeline(r, request, SortByPriority(upstreams), 1)

ExtractNext ==
  \/ \E r \in Slots : ReceiveRequest(r)
  \/ \E r \in Slots : ExecuteOperation(r)
  \/ \E r \in Slots : Discard(r)

ExtractSpec == StageInit /\ [][ExtractNext]_vars

\* --------------------------------------------------------- fair runs
\* Both outbound fetches carry a timeout (NodeStatusService.ts:42-50,
\* UpstreamService.ts:102), so each of them ends; continuations that are
\* runnable are run.  Requests arrive, time passes and operations raise
\* exceptions without any such guarantee.  The clock is read between
\* requests: a request is handled within one reading of it.
LiveTick == (\A r \in Slots : req[r].pc = "idle") /\ Tick
LiveReceiveRpc(r) == started < LiveRequests /\ ReceiveRpc(r)
LiveReceiveHealth(r) == started < LiveRequests /\ ReceiveHealth(r)

LiveNext ==
  \/ LiveTick
  \/ \E r \in Slots : LiveReceiveRpc(r)
  \/ \E r \in Slots : LiveReceiveHealth(r)
  \/ \E r \in Slots : StatusFetched(r)
  \/ \E r \in Slots : BuildContext(r)
  \/ \E r \in Slots : ExecuteOperation(r)
  \/ \E r \in Slots : StageThrows(r)
  \/ \E r \in Slots : ProxyResponds(r)
  \/ \E r \in Slots : Complete(r)

Fairness ==
  /\ \A r \in Slots : WF_vars(StatusFetched(r))
  /\ \A r \in Slots : WF_vars(BuildContext(r))
  /\ \A r \in Slots : WF_vars(ExecuteOperation(r))
  /\ \A r \in Slots : WF_vars(ProxyResponds(r))
  /\ \A r \in Slots : WF_vars(Complete(r))

LiveSpec == Init /\ [][LiveNext]_vars /\ Fairness

\* ================================================================ claims
RpcSlot(r) == req[r].kind = "rpc" /\ req[r].pc # "idle"
Dispatched(r) == req[r].pc \in { "proxying", "done" } /\ req[r].proxied # << >>
UpstreamById(id) == CHOOSE u \in Range(upstreams) : u.id = id

\* C1: whenever a stage of the pipeline sets the selected upstream, the
\* MetricsHandling stage has run for that request by the time the outbound
\* call is issued.
C1_MetricsRunsAfterSelection ==
  \A r \in Slots :
    (RpcSlot(r) /\ Dispatched(r) /\ req[r].selectedBy \in Range(Operations))
      => "MetricsHandling" \in Range(req[r].events)

\* C2: a request makes at most one outbound call, exactly one when an
\* upstream was selected, and a failed call ends the request with the
\* gateway error without a call to another upstream.
C2_SingleShotDispatch ==
  \A r \in Slots :
    /\ Len(req[r].proxied) <= 1
    /\ (RpcSlot(r) /\ req[r].pc \in { "proxying", "done" })
         => (req[r].selectedUpstream # NoUpstream <=> Len(req[r].proxied) = 1)
    /\ req[r].proxyResult = "failed"
         => /\ req[r].pc = "done"
            /\ req[r].response = NoUpstreamsError
            /\ Len(req[r].proxied) = 1

\* C2 witness: a request whose only outbound call failed while another
\* candidate was still available
C2_Witness ==
  \E r \in Slots :
    /\ req[r].pc = "done"
    /\ req[r].proxyResult = "failed"
    /\ Len(req[r].availableUpstreams) >= 2

\* the windowed error rate of health record h at time t is below / above
\* errorRateThreshold
WindowedRateBelow(h, t) ==
  Cardinality({ i \in 1..Len(h.errors) : t - h.errors[i] < errorRateWindowMs })
    * ThresholdDen < ThresholdNum * Max(h.totalRequests, 1)
WindowedRateAbove(h, t) ==
  Cardinality({ i \in 1..Len(h.errors) : t - h.errors[i] < errorRateWindowMs })
    * ThresholdDen > ThresholdNum * Max(h.totalRequests, 1)

\* C3: in every step, an upstream whose consecutiveErrors reaches
\* maxConsecutiveErrors is unhealthy afterwards, and an unhealthy upstream
\* becomes healthy only in a step taken after failoverUntil has elapsed and
\* in which the windowed error rate is below errorRateThreshold.
C3_CircuitBreakerMonotonic ==
  [][ \A id \in DOMAIN upstreamHealth :
        /\ ( /\ upstreamHealth'[id].consecutiveErrors >= maxConsecutiveErrors
             /\ upstreamHealth'[id].consecutiveErrors
                  # upstreamHealth[id].consecutiveErrors )
             => ~upstreamHealth'[id].isHealthy
        /\ ( ~upstreamHealth[id].isHealthy /\ upstreamHealth'[id].isHealthy )
             => /\ upstreamHealth[id].failoverUntil < now
                /\ WindowedRateBelow(upstreamHealth'[id], now) ]_vars

\* C3 witness: an upstream tripped by its consecutive errors is still
\* unhealthy although its cooldown has elapsed, no recovery having been
\* attempted yet
C3_Witness ==
  \E id \in DOMAIN upstreamHealth :
    /\ upstreamHealth[id].consecutiveErrors >= maxConsecutiveErrors
    /\ ~upstreamHealth[id].isHealthy
    /\ upstreamHealth[id].failoverUntil < now

\* a failure is recorded for id in this step
FailureRecorded(id) == outcomes'[id].failures = outcomes[id].failures + 1

\* C4: recording a failure at time now appends now to the failure
\* timestamps and increments totalErrors and consecutiveErrors; the
\* upstream is marked unhealthy with failoverUntil = now + failoverCooldownMs
\* exactly if the windowed error rate then exceeds the threshold or
\* consecutiveErrors has reached the limit, and otherwise both fields keep
\* their values.
C4_FailureRecording ==
  [][ \A id \in DOMAIN upstreamHealth :
        FailureRecorded(id) =>
          LET h == upstreamHealth[id]
              hAfter == upstreamHealth'[id]
          IN  /\ hAfter.errors # << >>
              /\ hAfter.errors[Len(hAfter.errors)] = now
              /\ hAfter.totalErrors = h.totalErrors + 1
              /\ hAfter.consecutiveErrors = h.consecutiveErrors + 1
              /\ IF \/ WindowedRateAbove(hAfter, now)
                    \/ hAfter.consecutiveErrors >= maxConsecutiveErrors
                 THEN /\ ~hAfter.isHealthy
                      /\ hAfter.failoverUntil = now + failoverCooldownMs
                 ELSE /\ hAfter.isHealthy = h.isHealthy
                      /\ hAfter.failoverUntil = h.failoverUntil ]_vars

\* C4 witness: a failure was recorded that left the upstream healthy (rate
\* at most the threshold, fewer consecutive errors than the limit)
C4_Witness ==
  \E id \in DOMAIN upstreamHealth :
    /\ upstreamHealth[id].totalErrors >= 1
    /\ upstreamHealth[id].consecutiveErrors >= 1
    /\ upstreamHealth[id].isHealthy
    /\ upstreamHealth[id].failoverUntil = 0

\* the recovery paths are exercised: some upstream has been marked healthy
\* again after a trip
RecoveredSomewhere ==
  \E id \in DOMAIN upstreamHealth :
    upstreamHealth[id].isHealthy /\ upstreamHealth[id].failoverUntil > 0

\* every upstream is unhealthy and its cooldown has not elapsed
AllUnhealthyInCooldown ==
  \A id \in DOMAIN upstreamHealth :
    ~upstreamHealth[id].isHealthy /\ ~(upstreamHealth[id].failoverUntil < now)

\* the pipeline of the request in slot r ended in the HealthFiltering stage
\* with no candidate left
EndedWithoutHealthyCandidate(r) ==
  /\ RpcSlot(r)
  /\ req[r].pc = "done"
  /\ req[r].events # << >>
  /\ req[r].events[Len(req[r].events)] = "HealthFiltering"
  /\ req[r].availableUpstreams = << >>

C6_NoCandidateError ==
  \A r \in Slots :
    ( /\ RpcSlot(r)
      /\ req[r].pc \in { "proxying", "done" }
      /\ req[r].selectedBy \notin Range(Operations)
      /\ req[r].availableUpstreams = << >> )
      => /\ req[r].pc = "done"
         /\ req[r].response.code = InternalErrorCode
         /\ req[r].response.status = BadGatewayStatus
         /\ req[r].proxied = << >>
         /\ req[r].recorded = 0

\* C6 witness: a request answered after its pipeline ran out of candidates
C6_Witness ==
  \E r \in Slots :
    /\ RpcSlot(r)
    /\ req[r].pc = "done"
    /\ req[r].events # << >>
    /\ req[r].selectedUpstream = NoUpstream
    /\ req[r].availableUpstreams = << >>

\* C7: no update of the health counters is lost: totalErrors is the number
\* of failures recorded, consecutiveErrors the number of failures recorded
\* since the last recorded success, and totalRequests counts every recorded
\* outcome.
C7_NoLostUpdate ==
  \A id \in DOMAIN upstreamHealth :
    /\ upstreamHealth[id].totalErrors = outcomes[id].failures
    /\ upstreamHealth[id].consecutiveErrors = outcomes[id].streak
    /\ upstreamHealth[id].totalRequests >= outcomes[id].total

\* C7 witness: one request has just recorded a failure for an upstream
\* while another request's call to the same upstream is in flight, and an
\* earlier outcome of that upstream had been recorded before
C7_Witness ==
  \E r1, r2 \in Slots :
    /\ r1 # r2
    /\ req[r1].pc = "done" /\ req[r1].proxyResult = "failed"
    /\ req[r2].pc = "proxying"
    /\ req[r1].proxied = req[r2].proxied
    /\ outcomes[req[r1].proxied[1]].total >= 2

\* the step starts a sync-status fetch for the request in slot r
StartsFetch(r) == req[r].pc # "fetching" /\ req'[r].pc = "fetching"

\* C8: at most one sync-status fetch is started per statusCheckInterval:
\* a getStatus call arriving less than statusCheckInterval after the start
\* of the previous fetch starts no fetch of its own.
C8_FetchThrottled ==
  [][ \A r \in Slots :
        StartsFetch(r)
          => (lastFetchStart = -1 \/ now - lastFetchStart >= statusCheckInterval)
    ]_vars

\* the ignoredMethods entry `pattern` covers `method`: entries ending in
\* '*' match as a prefix, all others exactly
Covers(pattern, method) ==
  IF Len(pattern) > 0 /\ SubSeq(pattern, Len(pattern), Len(pattern)) = "*"
  THEN /\ Len(method) >= Len(pattern) - 1
       /\ \A k \in 1..(Len(pattern) - 1) :
            SubSeq(method, k, k) = SubSeq(pattern, k, k)
  ELSE pattern = method

\* upstream u lists an entry covering the method
Ignores(u, method) ==
  \E j \in DOMAIN u.ignoredMethods : Covers(u.ignoredMethods[j], method)

C10_ActivationHeightRespected ==
  \A r \in Slots :
    (RpcSlot(r) /\ req[r].blockNumber.kind = "number") =>
      /\ \A i \in DOMAIN req[r].proxied :
           ~(UpstreamById(req[r].proxied[i]).evmStartBlock > req[r].blockNumber.n)
      /\ ( /\ req[r].pc \in { "proxying", "done" }
           /\ \A u \in Range(upstreams) : u.evmStartBlock > req[r].blockNumber.n )
           => /\ req[r].pc = "done"
              /\ req[r].response = NoUpstreamsError
              /\ req[r].proxied = << >>

\* C10 witness: a request for block b was dispatched although some
\* upstream's activation height is above b
C10_Witness ==
  \E r \in Slots :
    /\ RpcSlot(r)
    /\ Dispatched(r)
    /\ req[r].blockNumber.kind = "number"
    /\ \E u \in Range(upstreams) : u.evmStartBlock > req[r].blockNumber.n

\* a request for a block below every activation height has been answered
AllBelowActivationAnswered ==
  \E r \in Slots :
    /\ RpcSlot(r)
    /\ req[r].pc = "done"
    /\ req[r].blockNumber.kind = "number"
    /\ \A u \in Range(upstreams) : u.evmStartBlock > req[r].blockNumber.n

\* the step runs the stage `name` for the request in slot r
RunsStage(r, name) ==
  /\ req[r].pc = "pipeline"
  /\ Operations[req[r].opIndex] = name
  /\ req'[r].events = Append(req[r].events, name)

\* C11: after every stage of a pipeline run the candidate list is a subset
\* of the roster and no longer than before the stage; only the Recovery
\* stage and the Emergency-Archive stage may lengthen it, and only when
\* their incoming list was empty (the archive stage then to archive
\* upstreams only).
C11_CandidateSubset ==
  [][ \A r \in Slots : \A name \in Range(Operations) :
        RunsStage(r, name) =>
          /\ Range(req'[r].availableUpstreams) \subseteq Range(upstreams)
          /\ \/ Len(req'[r].availableUpstreams) <= Len(req[r].availableUpstreams)
             \/ /\ req[r].availableUpstreams = << >>
                /\ \/ name = "RecoveryFilter"
                   \/ /\ name = "ArchiveFilter"
                      /\ \A u \in Range(req'[r].availableUpstreams) :
                           u.type = "archive"
    ]_vars

\* C11 witness: a pipeline in progress whose candidate list has become
\* shorter than the roster
C11_Witness ==
  \E r \in Slots :
    /\ RpcSlot(r)
    /\ req[r].pc = "pipeline"
    /\ Len(req[r].events) >= 2
    /\ req[r].availableUpstreams # << >>
    /\ Len(req[r].availableUpstreams) < Len(upstreams)

\* the step is the catch block: the stage raised an exception
Threw(r) == req'[r].error /\ ~req[r].error

\* the last stage started for the request in slot r
LastEvent(r) == req[r].events[Len(req[r].events)]

\* the first k operations of the pipe
FirstOperations(k) == SubSeq(Operations, 1, k)

C14_WildcardMatching ==
  [][ \A r \in Slots :
        (RunsStage(r, "MethodRouting") /\ ~Threw(r)) =>
          /\ req'[r].availableUpstreams =
               SelectSeq(req[r].availableUpstreams,
                         LAMBDA u : ~Ignores(u, req[r].method))
          /\ \A u \in Range(req[r].availableUpstreams) :
               /\ isMethodIgnored(req[r].method, u.ignoredMethods)
                    <=> Ignores(u, req[r].method)
               /\ \A j \in DOMAIN u.ignoredMethods :
                    PatternIgnores(req[r].method, u.ignoredMethods[j])
                      <=> Covers(u.ignoredMethods[j], req[r].method)
    ]_vars

\* C14 witness: the MethodRouting stage, entered directly with the method
\* "eth_", dropped a candidate with the entry "eth_*" and kept one whose
\* entries do not cover the method
C14_Witness ==
  \E r \in Slots :
    /\ req[r].pc = "pipeline"
    /\ ~req[r].error
    /\ req[r].events = << "MethodRouting" >>
    /\ req[r].method = "eth_"
    /\ req[r].availableUpstreams # << >>
    /\ \E u \in Range(upstreams) :
         /\ u \notin Range(req[r].availableUpstreams)
         /\ \E j \in DOMAIN u.ignoredMethods : u.ignoredMethods[j] = "eth_*"

\* C15: when a stage raises an exception the orchestrator goes on to the
\* next stage with exactly the candidate list it passed to the failing
\* stage (after the last stage: to the last resort over that list); a
\* request is answered with the no-upstream error only when no candidate
\* is left.
C15_FailOpen ==
  /\ [][ \A r \in Slots :
           (req[r].pc = "pipeline" /\ Threw(r)) =>
             /\ req'[r].availableUpstreams = req[r].availableUpstreams
             /\ IF req[r].opIndex < Len(Operations)
                THEN /\ req'[r].pc = "pipeline"
                     /\ req'[r].opIndex = req[r].opIndex + 1
                ELSE IF req[r].availableUpstreams # << >>
                THEN /\ req'[r].pc = "proxying"
                     /\ req'[r].proxied = << req[r].availableUpstreams[1].id >>
                ELSE req'[r].pc = "done"
       ]_vars
  /\ [](\A r \in Slots :
          (req[r].pc = "done" /\ req[r].proxied = << >>
             /\ req[r].response = NoUpstreamsError)
            => req[r].availableUpstreams = << >>)

\* C15 witness: a run in which a stage raised an exception went on over
\* further stages with the whole roster as candidates and was dispatched
C15_Witness ==
  \E r \in Slots :
    /\ req[r].pc = "proxying"
    /\ req[r].error
    /\ Len(req[r].events) >= 2
    /\ Len(req[r].availableUpstreams) = Len(upstreams)

\* the responses a JSON-RPC request may get
RpcResponses ==
  { NoUpstreamsError } \cup { UpstreamResponse(id) : id \in Ids(upstreams) }

\* C16: every request is eventually answered, with the upstream's response
\* or with the JSON-RPC error object, and is answered once: the response is
\* set when the request is done and not changed afterwards.
C16_AnsweredExactlyOnce ==
  /\ \A r \in Slots : RpcSlot(r) ~> (RpcSlot(r) /\ req[r].pc = "done")
  /\ [](\A r \in Slots :
          RpcSlot(r) =>
            IF req[r].pc = "done"
            THEN req[r].response \in RpcResponses
            ELSE req[r].response = NoResponse)
  /\ [][ \A r \in Slots :
           req'[r].response # req[r].response =>
             \/ req[r].response = NoResponse /\ req'[r].pc = "done"
             \/ req[r].pc = "done" /\ req'[r].pc = "idle"
       ]_vars

\* C16 witness: a request has been answered after the status fetch made
\* for it had failed, a stage had raised an exception and the outbound
\* call had failed
C16_Witness ==
  \E r \in Slots :
    /\ RpcSlot(r)
    /\ req[r].pc = "done"
    /\ req[r].error
    /\ req[r].proxyResult = "failed"
    /\ req[r].response = NoUpstreamsError
    /\ LocalUpstream(upstreams) # NoUpstream
    /\ localNodeStatus = AssumedStatus(req[r].statusNow)

\* the outbound call of slot r ends in this step
CallEnds(r) == req[r].pc = "proxying" /\ req'[r].pc = "done"

\* C17: an outbound call records one outcome, when it ends: a success if
\* the upstream's response is passed on, a failure otherwise.  Nothing is
\* recorded for the request before or after, and the step records nothing
\* for any other upstream.
C17_OneOutcomePerCall ==
  [][ \A r \in Slots :
        IF CallEnds(r)
        THEN LET id == req[r].proxied[1]
                 h == upstreamHealth[id]
                 h2 == upstreamHealth'[id]
             IN  /\ req[r].recorded = 0 /\ req'[r].recorded = 1
                 /\ h2.totalRequests = h.totalRequests + 1
                 /\ IF req'[r].response = UpstreamResponse(id)
                    THEN /\ h2.totalErrors = h.totalErrors
                         /\ h2.consecutiveErrors = 0
                         /\ h2.lastSuccessfulRequest = now
                         /\ h2.lastError = h.lastError
                    ELSE /\ h2.totalErrors = h.totalErrors + 1
                         /\ h2.consecutiveErrors = h.consecutiveErrors + 1
                         /\ h2.lastError = now
                         /\ h2.lastSuccessfulRequest = h.lastSuccessfulRequest
                 /\ \A other \in DOMAIN upstreamHealth \ { id } :
                      upstreamHealth'[other] = upstreamHealth[other]
        ELSE (RpcSlot(r) /\ req'[r].pc # "idle") =>
               req'[r].recorded = req[r].recorded ]_vars

\* C17 witness: a call has just failed and recorded its one outcome, after
\* an earlier call to the same upstream had been answered (the roster has
\* no status URL, so that every outcome stems from a call)
C17_Witness ==
  \E r \in Slots :
    LET h == upstreamHealth[req[r].proxied[1]]
    IN  /\ RpcSlot(r)
        /\ req[r].pc = "done" /\ req[r].proxyResult = "failed"
        /\ req[r].response = NoUpstreamsError
        /\ req[r].recorded = 1
        /\ LocalUpstream(upstreams) = NoUpstream
        /\ h.lastError = now
        /\ h.totalRequests > h.totalErrors
        /\ h.lastSuccessfulRequest > StartTime

\* the pipeline run of slot r ends in this step with an outbound call
PipelineSelects(r) == req[r].pc = "pipeline" /\ req'[r].pc = "proxying"

\* the non-archive upstreams of the roster that accept the method
CompatibleNonArchive(method) ==
  { u \in Range(upstreams) : u.type # "archive" /\ ~Ignores(u, method) }

\* C18: for a request without block reference, when every upstream is
\* healthy and some non-archive upstream accepts the method, the pipeline
\* run ends with the non-archive upstream of smallest priority selected and
\* with the request counted in that upstream's per-method counter, the
\* last step of the run leaving the other upstreams' records alone.
C18_LowestPrioritySelectedAndCounted ==
  [][ \A r \in Slots :
        ( /\ PipelineSelects(r)
          /\ req[r].blockNumber.kind = "null"
          /\ \A id \in DOMAIN upstreamHealth : upstreamHealth[id].isHealthy
          /\ CompatibleNonArchive(req[r].method) # { } )
        => LET selected == req'[r].selectedUpstream[1]
               stats == upstreamHealth'[selected.id].methodStats
           IN  /\ selected \in CompatibleNonArchive(req[r].method)
               /\ \A u \in CompatibleNonArchive(req[r].method) :
                    selected.priority <= u.priority
               /\ req[r].method \in DOMAIN stats
               /\ stats[req[r].method] >= 1
               /\ \A other \in DOMAIN upstreamHealth \ { selected.id } :
                    upstreamHealth'[other] = upstreamHealth[other] ]_vars

ReadsErrorRates == outcomes' = outcomes /\ req' = req /\ now' = now

\* every failure timestamp of h is inside the window at time t
AllInWindow(h, t) ==
  \A i \in DOMAIN h.errors : t - h.errors[i] < errorRateWindowMs

\* the failure timestamps of h inside the window at time t
WindowedCount(h, t) ==
  Cardinality({ i \in DOMAIN h.errors : t - h.errors[i] < errorRateWindowMs })

\* C20: a read of the error rate leaves only timestamps that are inside the
\* window, and a read of a record whose timestamps are all inside the window
\* (as after an earlier read from which no timestamp has left the window)
\* changes nothing in the record; the value read, windowed failures over
\* max(totalRequests, 1), is the same before and after a read.
C20_PruningIdempotent ==
  [][ ReadsErrorRates =>
        \A id \in DOMAIN upstreamHealth :
          LET h == upstreamHealth[id]
              hAfter == upstreamHealth'[id]
          IN  /\ AllInWindow(h, now) => hAfter = h
              /\ h.totalRequests > 0 => AllInWindow(hAfter, now)
              /\ WindowedCount(hAfter, now) = WindowedCount(h, now)
              /\ hAfter.totalRequests = h.totalRequests
              /\ [hAfter EXCEPT !.errors = << >>] = [h EXCEPT !.errors = << >>]
    ]_vars

\* C20 witness: a read has pruned the record of one upstream (its last
\* outcome was a failure that has left the window, and no timestamp is
\* left), another upstream's record holds a timestamp inside the window,
\* and the rates can be read again
C20_Witness ==
  /\ NoRunInProgress
  /\ \E id, other \in DOMAIN upstreamHealth :
       /\ upstreamHealth[id].totalErrors >= 1
       /\ upstreamHealth[id].errors = << >>
       /\ upstreamHealth[id].consecutiveErrors >= 1
       /\ now - upstreamHealth[id].lastError >= errorRateWindowMs
       /\ upstreamHealth[other].errors # << >>
       /\ AllInWindow(upstreamHealth[other], now)

\* the healthy flag or the end of the cooldown of upstream id changes in
\* this step
BreakerChanges(id) ==
  \/ upstreamHealth'[id].isHealthy # upstreamHealth[id].isHealthy
  \/ upstreamHealth'[id].failoverUntil # upstreamHealth[id].failoverUntil

\* an outcome is recorded for upstream id in this step
OutcomeRecorded(id) == outcomes'[id].total = outcomes[id].total + 1

\* the Recovery stage of some run recovers candidate id in this step: the
\* change that markUpstreamRecovered would make, and no other
RecoveredByStage(id) ==
  \E r \in Slots :
    /\ RunsStage(r, "RecoveryFilter")
    /\ id \in Ids(req[r].availableUpstreams)
    /\ ~upstreamHealth[id].isHealthy
    /\ upstreamHealth'[id].isHealthy
    /\ upstreamHealth'[id].failoverUntil = upstreamHealth[id].failoverUntil
    /\ upstreamHealth[id].failoverUntil < now
    /\ WindowedRateBelow(upstreamHealth[id], now)

RecoversWithinHorizon(h) ==
  /\ h.failoverUntil < MaxTime
  /\ \A i \in DOMAIN h.errors : h.errors[i] + errorRateWindowMs <= MaxTime

\* the cooldown of h is over and no failure of it is inside the window
ReadyToRecover(h, t) == h.failoverUntil < t /\ WindowedCount(h, t) = 0

\* C22: an unhealthy upstream for which no further failure is recorded is
\* eventually healthy again, requests arriving for ever (ThresholdNum > 0):
\* the failures of a run being finitely many, from some instant on every
\* upstream whose failures leave the window in time is healthy.  And once
\* the cooldown is over and the failures have left the window, the Recovery
\* stage of the next run, or a success recorded for the upstream, marks it
\* healthy.
C22_EventuallyRecovered ==
  /\ <>[](\A id \in DOMAIN upstreamHealth :
            RecoversWithinHorizon(upstreamHealth[id])
              => upstreamHealth[id].isHealthy)
  /\ [][ \A id \in DOMAIN upstreamHealth :
           ( /\ ~upstreamHealth[id].isHealthy
             /\ ReadyToRecover(upstreamHealth[id], now)
             /\ \/ \E r \in Slots : RunsStage(r, "RecoveryFilter")
                \/ /\ OutcomeRecorded(id)
                   /\ outcomes'[id].failures = outcomes[id].failures )
           => upstreamHealth'[id].isHealthy ]_vars

\* C22 witness: an upstream that two failures had tripped is healthy again
\* without any success recorded for it
C22_Witness ==
  /\ ThresholdNum > 0
  /\ \E id \in DOMAIN upstreamHealth :
       /\ upstreamHealth[id].isHealthy
       /\ outcomes[id].failures >= 2
       /\ outcomes[id].total = outcomes[id].failures
       /\ ReadyToRecover(upstreamHealth[id], now)

\* a success is recorded for upstream id in this step
SuccessRecorded(id) ==
  OutcomeRecorded(id) /\ outcomes'[id].failures = outcomes[id].failures

\* C23: recording a success increments totalRequests, sets consecutiveErrors
\* to 0 and the last-success time to now; the upstream is healthy afterwards
\* if its cooldown is over and its windowed error rate, with the request
\* counted, is below the threshold, and otherwise keeps its flag; the
\* cooldown end and the failure counters are not touched.
C23_SuccessRecording ==
  [][ \A id \in DOMAIN upstreamHealth :
        SuccessRecorded(id) =>
          LET h == upstreamHealth[id]
              hAfter == upstreamHealth'[id]
          IN  /\ hAfter.totalRequests = h.totalRequests + 1
              /\ hAfter.consecutiveErrors = 0
              /\ hAfter.lastSuccessfulRequest = now
              /\ hAfter.failoverUntil = h.failoverUntil
              /\ hAfter.totalErrors = h.totalErrors
              /\ hAfter.lastError = h.lastError
              /\ hAfter.isHealthy =
                   IF h.failoverUntil < now /\ WindowedRateBelow(hAfter, now)
                   THEN TRUE
                   ELSE h.isHealthy ]_vars

\* C23 witness: an upstream is still unhealthy after a success recorded
\* during its cooldown, although its error rate is below the threshold
C23_Witness ==
  \E id \in DOMAIN upstreamHealth :
    LET h == upstreamHealth[id]
    IN  /\ ~h.isHealthy
        /\ h.consecutiveErrors = 0
        /\ h.lastSuccessfulRequest = now
        /\ h.totalRequests > h.totalErrors
        /\ h.failoverUntil >= now
        /\ WindowedRateBelow(h, now)

\* what the operation at hand returns for the context of slot r
StageResult(r) == RunOperation(Operations[req[r].opIndex], Context(req[r]))

\* the loop goes on to the next operation
Continues(r) ==
  req'[r].pc = "pipeline" /\ req'[r].opIndex = req[r].opIndex + 1

\* C24: for a non-empty candidate list the Recovery stage returns the same
\* list, in the same order, with shouldContinue true, whatever the health of
\* the candidates and whether or not it recovered any, and the loop goes on
\* with that list.
C24_RecoveryPassesThrough ==
  [][ \A r \in Slots :
        ( /\ RunsStage(r, "RecoveryFilter")
          /\ ~Threw(r)
          /\ req[r].availableUpstreams # << >> )
        => /\ StageResult(r).filteredUpstreams = req[r].availableUpstreams
           /\ StageResult(r).shouldContinue
           /\ StageResult(r).selectedUpstream = NoUpstream
           /\ req'[r].availableUpstreams = req[r].availableUpstreams
           /\ Continues(r) ]_vars

\* C24 witness: the Recovery stage has passed on a list holding a candidate
\* it recovered and a candidate that is still unhealthy
C24_Witness ==
  \E r \in Slots :
    /\ req[r].pc = "pipeline"
    /\ ~req[r].error
    /\ req[r].events = FirstOperations(1)
    /\ \E u, v \in Range(req[r].availableUpstreams) :
         /\ ~upstreamHealth[u.id].isHealthy
         /\ upstreamHealth[v.id].isHealthy
         /\ upstreamHealth[v.id].consecutiveErrors >= maxConsecutiveErrors

\* C25: the Recovery stage returns shouldContinue true on every input, and
\* for an empty candidate list it returns the whole roster.
C25_RecoveryNeverHalts ==
  [][ \A r \in Slots :
        (RunsStage(r, "RecoveryFilter") /\ ~Threw(r)) =>
          /\ StageResult(r).shouldContinue
          /\ req[r].availableUpstreams = << >> =>
               /\ Range(StageResult(r).filteredUpstreams) = Range(upstreams)
               /\ Len(StageResult(r).filteredUpstreams) = Len(upstreams)
               /\ Range(req'[r].availableUpstreams) = Range(upstreams) ]_vars

\* the candidates of slot r that list no entry covering its method
Accepting(r) ==
  SelectSeq(req[r].availableUpstreams, LAMBDA u : ~Ignores(u, req[r].method))

\* C26: the Method-Compatibility stage returns the incoming candidates that
\* list no entry covering the method, in their incoming order, whatever the
\* health of any upstream; it asks to stop exactly if none is left, and the
\* run goes on with the list returned or ends without a candidate.
C26_MethodStageFilters ==
  [][ \A r \in Slots :
        (RunsStage(r, "MethodRouting") /\ ~Threw(r)) =>
          /\ StageResult(r).filteredUpstreams = Accepting(r)
          /\ StageResult(r).shouldContinue <=> (Accepting(r) # << >>)
          /\ StageResult(r).upstreamHealth = upstreamHealth
          /\ req'[r].availableUpstreams = Accepting(r)
          /\ IF Accepting(r) # << >> THEN Continues(r)
             ELSE req'[r].pc = "done" /\ req'[r].proxied = << >> ]_vars

\* C26 witness: after the stage an unhealthy upstream that accepts the
\* method is a candidate, and an unhealthy upstream that ignores it is not
C26_Witness ==
  \E r \in Slots :
    /\ req[r].pc = "pipeline"
    /\ ~req[r].error
    /\ req[r].events = FirstOperations(2)
    /\ \E u \in Range(req[r].availableUpstreams) :
         ~upstreamHealth[u.id].isHealthy
    /\ \E v \in Range(upstreams) :
         /\ ~upstreamHealth[v.id].isHealthy
         /\ Ignores(v, req[r].method)
         /\ v \notin Range(req[r].availableUpstreams)

\* the candidates of slot r that are left by the activation-height filter
Remaining(r) ==
  IF req[r].blockNumber.kind = "number"
  THEN SelectSeq(req[r].availableUpstreams,
                 LAMBDA u : \/ u.evmStartBlock = 0
                            \/ req[r].blockNumber.n >= u.evmStartBlock)
  ELSE req[r].availableUpstreams

\* the members of list of the kind asked for if there is one, else list
Preferring(archive, list) ==
  LET preferred ==
        SelectSeq(list, LAMBDA u : (u.type = "archive") <=> archive)
  IN  IF preferred # << >> THEN preferred ELSE list

\* C27: when the activation-height filter leaves a candidate, the Block-Age
\* stage returns, of the candidates left: the non-archive ones if any, else
\* all, for a request without block reference or for 'latest'; the archive
\* ones if any, else all, for a historical method with a height below
\* OldBlockCutoff; the non-archive ones if any, else all, for a historical
\* method with a height at or above it.
C27_BlockStagePrefers ==
  [][ \A r \in Slots :
        ( /\ RunsStage(r, "BlockBasedRouting")
          /\ ~Threw(r)
          /\ Remaining(r) # << >>
          /\ req[r].blockNumber.kind \in { "null", "latest", "number" } )
        => LET old == /\ req[r].blockNumber.kind = "number"
                      /\ req[r].method \in historicalMethods
                      /\ req[r].blockNumber.n < OldBlockCutoff
               expected == Preferring(old, Remaining(r))
           IN  /\ StageResult(r).filteredUpstreams = expected
               /\ StageResult(r).shouldContinue
               /\ req'[r].availableUpstreams = expected
               /\ Continues(r) ]_vars

\* C27 witness: for a historical method and the last height below the
\* boundary the stage has left archive candidates only, although the roster
\* has a non-archive upstream that serves that height
C27_Witness ==
  \E r \in Slots :
    /\ req[r].pc = "pipeline"
    /\ ~req[r].error
    /\ req[r].events # << >>
    /\ LastEvent(r) = "BlockBasedRouting"
    /\ req[r].method \in historicalMethods
    /\ req[r].blockNumber = NumberBlock(OldBlockCutoff - 1)
    /\ req[r].availableUpstreams # << >>
    /\ \A u \in Range(req[r].availableUpstreams) : u.type = "archive"
    /\ \E v \in Range(upstreams) : v.type # "archive" /\ v.evmStartBlock = 0

\* C28: the Block-Age stage returns shouldContinue true on every input;
\* when the activation-height filter leaves no candidate it returns the
\* empty list, and the request is answered with the JSON-RPC error, no
\* outbound call being made.
C28_BlockStageNeverHalts ==
  [][ \A r \in Slots :
        (RunsStage(r, "BlockBasedRouting") /\ ~Threw(r)) =>
          /\ StageResult(r).shouldContinue
          /\ StageResult(r).selectedUpstream = NoUpstream
          /\ Remaining(r) = << >> =>
               /\ StageResult(r).filteredUpstreams = << >>
               /\ req'[r].availableUpstreams = << >>
               /\ req'[r].pc = "done"
               /\ req'[r].proxied = << >>
               /\ req'[r].response = NoUpstreamsError ]_vars

\* C28 witness: a run has ended with the error after the Block-Age stage,
\* the request asking for a height below the activation height of every
\* upstream of the roster
C28_Witness ==
  \E r \in Slots :
    /\ req[r].pc = "done"
    /\ ~req[r].error
    /\ req[r].events # << >>
    /\ LastEvent(r) = "BlockBasedRouting"
    /\ req[r].blockNumber.kind = "number"
    /\ \A u \in Range(upstreams) : req[r].blockNumber.n < u.evmStartBlock
    /\ req[r].availableUpstreams = << >>
    /\ req[r].response = NoUpstreamsError

C30_ArchiveStageFallsBackToRoster ==
  [][ \A r \in Slots :
        ( /\ RunsStage(r, "ArchiveFilter")
          /\ req[r].availableUpstreams = << >> ) =>
          /\ ~StageResult(r).threw
          /\ StageResult(r).filteredUpstreams =
               SelectSeq(upstreams, LAMBDA u : u.type = "archive")
          /\ StageResult(r).shouldContinue <=>
               (\E u \in Range(upstreams) : u.type = "archive") ]_vars

\* the pipeline loop of the request in slot r ends with this step
LoopEnds(r) == req[r].pc = "pipeline" /\ req'[r].pc # "pipeline"

\* the operation run in this step produced no selection (it returned none
\* or it raised an exception)
NoSelectionProduced(r) ==
  Threw(r) \/ StageResult(r).selectedUpstream = NoUpstream

\* C31: when the pipeline loop ends, no stage having produced a selection,
\* and the candidate list is not empty, the first candidate of the list is
\* selected and the outbound call to it is started.
C31_LastResortTakesFirst ==
  [][ \A r \in Slots :
        ( /\ LoopEnds(r)
          /\ NoSelectionProduced(r)
          /\ req'[r].availableUpstreams # << >> ) =>
          /\ req'[r].pc = "proxying"
          /\ req'[r].selectedUpstream = << req'[r].availableUpstreams[1] >>
          /\ req'[r].proxied = << req'[r].availableUpstreams[1].id >> ]_vars

\* C31 witness: an outbound call is in flight to the first of two
\* candidates, chosen after the loop and not by a stage
C31_Witness ==
  \E r \in Slots :
    /\ req[r].pc = "proxying"
    /\ req[r].selectedBy = "LastResort"
    /\ Len(req[r].availableUpstreams) >= 2
    /\ req[r].proxied = << req[r].availableUpstreams[1].id >>

\* the parameter that holds the block reference of a request: the one at
\* the method's table position, the filter object's fromBlock for
\* eth_getLogs, << >> when there is none
BlockArgument(method, hasParams, params) ==
  IF ~hasParams \/ method \notin historicalMethods THEN << >>
  ELSE IF method = "eth_getLogs"
    THEN IF /\ Len(params) >= 1
            /\ params[1].t = "object"
            /\ params[1].fromBlock # ""
         THEN << StrParam(params[1].fromBlock) >>
         ELSE << >>
  ELSE IF blockNumberMethods(method) >= 0
          /\ blockNumberMethods(method) + 1 <= Len(params)
    THEN << params[blockNumberMethods(method) + 1] >>
  ELSE << >>

\* a hex quantity: 0x followed by hex digits only
IsHexQuantity(str) ==
  /\ Len(str) >= 3
  /\ SubSeq(str, 1, 2) = "0x"
  /\ \A i \in 3..Len(str) : IsHexDigit(CharAt(str, i))

\* the normalization of a block parameter
Normalized(arg) ==
  IF arg = << >> THEN NullBlock
  ELSE IF arg[1].t = "number" THEN NumberBlock(arg[1].n)
  ELSE IF arg[1].t # "string" THEN NullBlock
  ELSE IF arg[1].s \in { "latest", "pending" } THEN LatestBlock
  ELSE IF arg[1].s = "earliest" THEN NumberBlock(0)
  ELSE IF IsHexQuantity(arg[1].s)
    THEN NumberBlock(HexFold(arg[1].s, 3, Len(arg[1].s), 0))
  ELSE NullBlock

\* C32: the block reference extracted for a request is the normalization
\* of its block parameter: none for a method outside historicalMethods;
\* otherwise 'latest' for "latest" and "pending", 0 for "earliest", the
\* value of a numeric string, and none for a parameter that is absent or
\* cannot be parsed.
C32_ExtractNormalizes ==
  \A r \in Slots :
    req[r].pc # "idle" =>
      req[r].blockNumber =
        Normalized(BlockArgument(req[r].method, req[r].hasParams,
                                 req[r].params))

CallIssued(r) == req[r].pc # "proxying" /\ req'[r].pc = "proxying"

C35_RecoveryKeepsStreak ==
  /\ [][ \A r \in Slots :
           (RunsStage(r, "RecoveryFilter") /\ ~Threw(r)) =>
             \A id \in DOMAIN upstreamHealth :
               upstreamHealth'[id] =
                 [upstreamHealth[id] EXCEPT
                    !.isHealthy = upstreamHealth'[id].isHealthy] ]_vars
  /\ [][ \A id \in DOMAIN upstreamHealth :
           ( /\ FailureRecorded(id)
             /\ upstreamHealth[id].consecutiveErrors
                  >= maxConsecutiveErrors - 1 ) =>
             /\ ~upstreamHealth'[id].isHealthy
             /\ upstreamHealth'[id].failoverUntil = now + failoverCooldownMs
       ]_vars

\* C35 witness: a request whose pipeline began with the Recovery stage was
\* sent to an upstream all of whose calls have failed (so that it was
\* unhealthy from its first call on and the stage had to recover it), the
\* call failed, and the upstream is unhealthy again although its windowed
\* error rate is not above the threshold
C35_Witness ==
  \E r \in Slots :
    /\ req[r].pc = "done"
    /\ req[r].proxyResult = "failed"
    /\ "RecoveryFilter" \in Range(req[r].events)
    /\ Len(req[r].proxied) = 1
    /\ LET h == upstreamHealth[req[r].proxied[1]]
       IN  /\ ~h.isHealthy
           /\ h.totalErrors = h.totalRequests
           /\ h.consecutiveErrors >= maxConsecutiveErrors
           /\ ~RateAbove(Len(SelectSeq(h.errors,
                                       LAMBDA e : now - e < errorRateWindowMs)),
                         h.totalRequests)

\* C36: in a request handled by the orchestrator every operation after
\* the first is started with a candidate list that is not empty; the
\* Emergency-Archive stage in particular never sees an empty list.
C36_LaterStagesSeeCandidates ==
  \A r \in Slots :
    (req[r].pc = "pipeline" /\ req[r].opIndex > 1) =>
      req[r].availableUpstreams # << >>

\* C36 witness: the loop of a request has ended at an operation before the
\* Emergency-Archive stage that returned the empty list, at least two
\* operations having run
C36_Witness ==
  \E r \in Slots :
    /\ req[r].pc = "done"
    /\ req[r].kind = "rpc"
    /\ req[r].availableUpstreams = << >>
    /\ Len(req[r].events) >= 2
    /\ "ArchiveFilter" \notin Range(req[r].events)
    /\ req[r].events = FirstOperations(Len(req[r].events))

SameKind(list) ==
  \A i, j \in 1..Len(list) :
    (list[i].type = "archive") <=> (list[j].type = "archive")

FetchCompletes(r) == req[r].pc = "fetching" /\ req'[r].pc # "fetching"

\* the status left by this step is the fallback of a failed fetch
FetchFailed == localNodeStatus'.latestBlockHeight = AssumedLatestBlock

\* C39: a status fetch that ends records one outcome for the upstream that
\* owns the status URL and none for any other: totalRequests grows by one,
\* totalErrors by one exactly if the fetch failed; a failed fetch that
\* brings consecutiveErrors to maxConsecutiveErrors leaves the upstream
\* unhealthy; after a failed fetch the status is the fallback (not null)
\* and lastStatusCheck is the time the fetch was started at.
C39_StatusFetchRecordsOutcome ==
  [][ \A r \in Slots :
        FetchCompletes(r) =>
          LET id == (CHOOSE u \in Range(upstreams) : u.statusUrl).id
              before == upstreamHealth[id]
              after == upstreamHealth'[id]
          IN  /\ after.totalRequests = before.totalRequests + 1
              /\ after.totalErrors =
                   before.totalErrors + (IF FetchFailed THEN 1 ELSE 0)
              /\ after.consecutiveErrors =
                   (IF FetchFailed THEN before.consecutiveErrors + 1 ELSE 0)
              /\ \A other \in DOMAIN upstreamHealth \ { id } :
                   upstreamHealth'[other] = upstreamHealth[other]
              /\ ( FetchFailed
                   /\ before.consecutiveErrors + 1 >= maxConsecutiveErrors )
                   => ~after.isHealthy
              /\ localNodeStatus'.known
              /\ localNodeStatus'.lastUpdated = req[r].statusNow
              /\ lastStatusCheck' = req[r].statusNow
              /\ FetchFailed =>
                   /\ localNodeStatus'.earliestBlockHeight = 0
                   /\ ~localNodeStatus'.catchingUp ]_vars

\* C39 witness: maxConsecutiveErrors status fetches have failed and no
\* request has ever been sent to the upstream that owns the status URL
\* (every request accepted so far is still in its slot and none was
\* dispatched to it); the upstream is unhealthy and the status is the
\* fallback
C39_Witness ==
  \E u \in Range(upstreams) :
    /\ u.statusUrl
    /\ started = NumSlots
    /\ \A r \in Slots :
         /\ req[r].pc \notin { "idle", "fetching" }
         /\ u.id \notin Range(req[r].proxied)
    /\ ~upstreamHealth[u.id].isHealthy
    /\ upstreamHealth[u.id].totalRequests = maxConsecutiveErrors
    /\ upstreamHealth[u.id].consecutiveErrors = maxConsecutiveErrors
    /\ localNodeStatus.known
    /\ localNodeStatus.latestBlockHeight = AssumedLatestBlock
    /\ lastStatusCheck >= StartTime

====
